---- MODULE Spec2Model ----
(***************************************************************************)
(* Storage Provisioning Orchestrator of P9Debian (Ultima-interactive.py).  *)
(*                                                                         *)
(* Four specifications share this module:                                  *)
(*   Spec      - main() running the registered installer steps, up to      *)
(*               MaxRuns times, against the storage state of the host;     *)
(*   FstabSpec - step_fstab applied to every mount table of up to          *)
(*               MaxLines lines;                                           *)
(*   PollSpec  - the four bounded readiness loops, one evaluation at a     *)
(*               time;                                                     *)
(*   BootSpec  - the service manager ordering the generated units at boot. *)
(***************************************************************************)
EXTENDS Integers, Sequences, FiniteSets, TLC

\* ------------------------------------------------------------------------
\* Configuration (module-level constants of the script)
\* ------------------------------------------------------------------------
LOCAL_QCOW_PATH == "/android.qcow2"
NBD_DEVICE == "/dev/nbd0"
VG_NAME == "data_vg"
LV_NAME == "data_lv"
LVM_MOUNT_POINT == "/mnt/data"
LV_DEVICE_PATH == "/dev/data_vg/data_lv"
DEBIAN_USER == "droid"
DEBIAN_GROUP == "users"

NBD_UNIT == "qemu-nbd-connect.service"
LVM_UNIT == "lvm-activate-data-vg.service"
FSTAB_FILE == "/etc/fstab"

\* Bounds of the model
MaxRuns == 2
MaxLines == 3

\* ------------------------------------------------------------------------
\* The registered steps, in registration (decorator) order
\* ------------------------------------------------------------------------
\* (mutant) the one-time creation registered ahead of the unit definitions
installer_steps_CreationFirst ==
  << "step_prereqs", "step_install_deps", "step_create_qcow",
     "step_set_timezone", "step_zerotier", "step_ssh_prep",
     "step_groups_xorg", "step_rust_just", "step_zt_join_verify",
     "step_lvm_setup", "step_nbd_service", "step_lvm_service",
     "step_fstab", "step_qcow_perms", "step_enable_storage_services",
     "step_install_docker", "step_configure_qemu_binfmt",
     "step_install_package_tools", "step_enhance_configs",
     "step_install_starship", "step_install_brave", "step_setup_vnc",
     "step_configure_samba", "step_enhanced_ssh_config",
     "step_enhanced_vnc_config", "step_setup_podman", "step_cleanup" >>

installer_steps ==
  << "step_prereqs", "step_install_deps", "step_create_qcow",
     "step_set_timezone", "step_zerotier", "step_ssh_prep",
     "step_groups_xorg", "step_rust_just", "step_zt_join_verify",
     "step_qcow_perms", "step_nbd_service", "step_lvm_service",
     "step_lvm_setup", "step_fstab", "step_enable_storage_services",
     "step_install_docker", "step_configure_qemu_binfmt",
     "step_install_package_tools", "step_enhance_configs",
     "step_install_starship", "step_install_brave", "step_setup_vnc",
     "step_configure_samba", "step_enhanced_ssh_config",
     "step_enhanced_vnc_config", "step_setup_podman", "step_cleanup" >>

StorageSteps ==
  { "step_prereqs", "step_create_qcow", "step_qcow_perms", "step_nbd_service",
    "step_lvm_service", "step_lvm_setup", "step_fstab",
    "step_enable_storage_services" }

NSteps == Len(installer_steps)

IndexOf(seq, x) ==
  IF \E k \in 1..Len(seq) : seq[k] = x
    THEN CHOOSE k \in 1..Len(seq) : seq[k] = x /\ \A j \in 1..(k-1) : seq[j] # x
    ELSE 0

\* ------------------------------------------------------------------------
\* The mount table.  A line is the sequence of its whitespace-separated
\* fields (what line.strip().split() yields); a first field that begins with
\* '#' makes the line a comment.  A content is its lines plus whether the
\* text ends with a newline.
\* ------------------------------------------------------------------------
HashTokens == { "#", "#/dev/data_vg/data_lv" }

fstab_entry_line ==
  << LV_DEVICE_PATH, LVM_MOUNT_POINT, "ext4", "defaults,nofail,_netdev", "0", "2" >>
fstab_comment_line == << "#", "Entry added by AVF installer" >>

FstabLines ==
  { << >>,
    << "#", "static file system information" >>,
    << "#/dev/data_vg/data_lv", LVM_MOUNT_POINT, "ext4" >>,
    fstab_entry_line,
    << LV_DEVICE_PATH, LVM_MOUNT_POINT, "ext4", "defaults", "0", "2" >>,
    << "/dev/other", LVM_MOUNT_POINT, "ext4", "defaults", "0", "2" >>,
    << LV_DEVICE_PATH, "/mnt/other", "ext4", "defaults", "0", "2" >>,
    << "/dev/sda1", "/", "ext4", "defaults", "0", "1" >>,
    << LV_DEVICE_PATH >> }

RECURSIVE SeqsUpTo(_, _)
SeqsUpTo(S, n) ==
  IF n = 0 THEN { << >> }
  ELSE LET shorter == SeqsUpTo(S, n - 1)
       IN shorter \cup { Append(s, x) : s \in shorter, x \in S }

NoFile == [file |-> FALSE, lines |-> << >>, nl |-> FALSE]
Content(lines, nl) == [file |-> TRUE, lines |-> lines, nl |-> nl /\ lines # << >>]

\* clean_line = line.strip(); skipped when empty or a comment
IsSkipped(line) == line = << >> \/ line[1] \in HashTokens

\* The scan of step_fstab: the first non-skipped line with at least two
\* fields that names the managed device or the managed mountpoint decides,
\* and the loop breaks there.
RECURSIVE ScanFrom(_, _)
ScanFrom(lines, k) ==
  IF k > Len(lines) THEN "absent"
  ELSE LET line == lines[k] IN
       IF IsSkipped(line) \/ Len(line) < 2 THEN ScanFrom(lines, k + 1)
       ELSE LET fstab_device == line[1]
                fstab_mountpoint == line[2]
            IN IF fstab_device = LV_DEVICE_PATH /\ fstab_mountpoint = LVM_MOUNT_POINT
                 THEN "entry_exists"
               ELSE IF fstab_mountpoint = LVM_MOUNT_POINT /\ fstab_device # LV_DEVICE_PATH
                 THEN "conflict_exists"
               ELSE IF fstab_device = LV_DEVICE_PATH /\ fstab_mountpoint # LVM_MOUNT_POINT
                 THEN "conflict_exists"
               ELSE ScanFrom(lines, k + 1)

\* (mutant) the scan never recognises the managed entry
ScanFstab_NoExactMatch(content) ==
  IF ScanFrom(content.lines, 1) = "entry_exists" THEN "absent"
  ELSE ScanFrom(content.lines, 1)

ScanFstab(content) == ScanFrom(content.lines, 1)

\* (mutant) the managed entry is put at the head of the file
AppendEntry_AtHead(content) ==
  [file |-> TRUE,
   lines |-> << fstab_comment_line, fstab_entry_line, << >> >> \o content.lines,
   nl |-> TRUE]

\* new_content = content (+ "\n" if it does not end with one) + "\n" +
\* comment + "\n" + entry + "\n"
AppendEntry(content) ==
  [file |-> TRUE,
   lines |-> content.lines \o << << >>, fstab_comment_line, fstab_entry_line >>,
   nl |-> TRUE]

\* Entries (non-comment lines with two fields or more) of a content
Entries(content) ==
  { k \in 1..Len(content.lines) :
      ~IsSkipped(content.lines[k]) /\ Len(content.lines[k]) >= 2 }
RefMountpoint(content) ==
  { k \in Entries(content) : content.lines[k][2] = LVM_MOUNT_POINT }
RefDevice(content) ==
  { k \in Entries(content) : content.lines[k][1] = LV_DEVICE_PATH }
IsConflictLine(line) ==
  /\ ~IsSkipped(line) /\ Len(line) >= 2
  /\ \/ line[2] = LVM_MOUNT_POINT /\ line[1] # LV_DEVICE_PATH
     \/ line[1] = LV_DEVICE_PATH /\ line[2] # LVM_MOUNT_POINT
HasConflict(content) ==
  \E k \in 1..Len(content.lines) : IsConflictLine(content.lines[k])
HasExact(content) ==
  \E k \in RefMountpoint(content) : content.lines[k][1] = LV_DEVICE_PATH

\* ------------------------------------------------------------------------
\* The generated unit files: the relations their [Unit] and [Install]
\* sections declare.
\* ------------------------------------------------------------------------
NoUnit ==
  [file |-> FALSE, Requires |-> {}, After |-> {}, Wants |-> {}, Before |-> {},
   WantedBy |-> {}]

NbdUnitContent ==
  [file |-> TRUE,
   Requires |-> {},
   After |-> {"local-fs.target", "network-online.target",
              "systemd-modules-load.service"},
   Wants |-> {"network-online.target", "systemd-modules-load.service"},
   Before |-> {"lvm2-activation-early.service", "lvm2-activation.service",
               LVM_UNIT},
   WantedBy |-> {"multi-user.target"}]

\* The words after '#' on the Before= line are no unit names; the service
\* manager ignores them and keeps the three names before them.
LvmUnitContent ==
  [file |-> TRUE,
   Requires |-> {NBD_UNIT},
   After |-> {NBD_UNIT, "systemd-udev-settle.service"},
   Wants |-> {},
   Before |-> {"local-fs.target", "remote-fs.target", "mnt-data.mount"},
   WantedBy |-> {"multi-user.target"}]

\* ------------------------------------------------------------------------
\* State
\* ------------------------------------------------------------------------
VARIABLES
  \* main()
  pc,             \* "start" | "loop" | "exited"
  i,              \* index of the step the loop is at
  run,            \* number of the current invocation of main
  exitCode,       \* -1 while running, else the status given to sys.exit
  invoked,        \* the step functions called in this run, in call order
  results,        \* what each of them gave: "ok" | "fail" | "raise"
  nonInteractive, \* args.non_interactive
  \* the host
  userExists,     \* DEBIAN_USER exists
  groups,         \* the groups that exist, among DEBIAN_GROUP and "disk"
  img,            \* LOCAL_QCOW_PATH: [exists, mode, owner, group]
  nbdConn,        \* qemu-nbd-connect.service active, NBD_DEVICE bound
  lvmActive,      \* lvm-activate-data-vg.service active
  lvmMeta,        \* volume-manager metadata in the image: none < pv < vg < lv
  fs,             \* an ext4 filesystem is on the logical volume
  lvNode,         \* LV_DEVICE_PATH is a block device
  mounted,        \* LVM_MOUNT_POINT is a mountpoint
  fstab,          \* content of /etc/fstab
  backups,        \* contents of the /etc/fstab.bak-<timestamp> copies made
  nbdUnit,        \* content of the device-connect unit file
  lvmUnit,        \* content of the volume-activate unit file
  enabled,        \* units enabled for boot
  \* observation of the current run
  cmds,           \* commands and change calls issued by the last storage step
  destr,          \* destructive commands issued in this run
  written,        \* files written in this run
  branch,         \* branch each storage step took in this run
  envOk,          \* no external command, prompt or file operation failed
  start,          \* the host as it was when this run began
  prevExit,       \* exit status of the previous run (-1 if none)
  prevLvm,        \* the branch step_lvm_setup took in the previous run
  \* one call of run_command
  rc,             \* [call, behav, pc, returncode, exc, ret], or NoCall
  \* the list the @installer_step decorators built at import time
  registered,
  \* a readiness loop
  ploop,          \* which loop runs ("none" outside PollSpec)
  ptries,         \* the shell's $tries, or Python's attempt
  pevals,         \* evaluations of the predicate so far
  psleeps,        \* sleeps so far
  pstate,         \* "run" | "ready" | "timeout"
  pallFalse,      \* every evaluation so far found the predicate false
  \* the service manager
  bmode,          \* the transaction: "boot" | "start_lvm" | "none"
  bjobs           \* unit -> state of its start job

mainVars == << pc, i, run, exitCode, invoked, results, nonInteractive >>
hostVars == << userExists, groups, img, nbdConn, lvmActive, lvmMeta, fs, lvNode,
               mounted, fstab, backups, nbdUnit, lvmUnit, enabled >>
obsVars == << cmds, destr, written, branch, envOk, start, prevExit, prevLvm >>
pollVars == << ploop, ptries, pevals, psleeps, pstate, pallFalse >>
bootVars == << bmode, bjobs >>
cmdVars == << rc, registered >>

\* The host as one record, for the step functions below
Host ==
  [user |-> userExists, groups |-> groups, img |-> img, conn |-> nbdConn,
   lvmAct |-> lvmActive, meta |-> lvmMeta, fs |-> fs, node |-> lvNode,
   mnt |-> mounted, fstab |-> fstab, backups |-> backups, nbdUnit |-> nbdUnit,
   lvmUnit |-> lvmUnit, enabled |-> enabled]

SetHost(w) ==
  /\ userExists' = w.user /\ groups' = w.groups /\ img' = w.img
  /\ nbdConn' = w.conn /\ lvmActive' = w.lvmAct /\ lvmMeta' = w.meta
  /\ fs' = w.fs /\ lvNode' = w.node /\ mounted' = w.mnt /\ fstab' = w.fstab
  /\ backups' = w.backups /\ nbdUnit' = w.nbdUnit /\ lvmUnit' = w.lvmUnit
  /\ enabled' = w.enabled

NoImage == [exists |-> FALSE, mode |-> "none", owner |-> "none", group |-> "none"]
Image(mode, owner, group) ==
  [exists |-> TRUE, mode |-> mode, owner |-> owner, group |-> group]

Destructive == { "qemu-img create", "pvcreate", "vgcreate", "lvcreate", "mkfs.ext4" }

\* ------------------------------------------------------------------------
\* What the external commands do to the host.  `ok` is the part of the
\* outcome the host does not determine (the tool fails, or times out).
\* ------------------------------------------------------------------------

\* systemctl start qemu-nbd-connect.service: a no-op on an active unit, else
\* ExecStart binds the image and ExecStartPost waits for the device.
NbdStart(w, ok) ==
  IF w.conn THEN [w |-> w, ok |-> TRUE]
  ELSE IF ok /\ w.img.exists /\ w.nbdUnit.file
    THEN [w |-> [w EXCEPT !.conn = TRUE], ok |-> TRUE]
    ELSE [w |-> w, ok |-> FALSE]

\* systemctl stop qemu-nbd-connect.service: volume-activate Requires= it, so
\* an active volume-activate is stopped first (ExecStop: vgchange -an, which
\* cannot remove a mounted volume); then ExecStop unbinds the device.  A
\* logical-volume node activated outside the unit stays.
NbdStop(w, ok) ==
  IF ~ok THEN w
  ELSE [w EXCEPT !.conn = FALSE,
                 !.lvmAct = FALSE,
                 !.node = IF w.lvmAct THEN w.node /\ w.mnt ELSE w.node]

\* lvm vgchange -ay data_vg: needs the physical volume readable
VgActivate(w, ok) ==
  LET good == ok /\ w.conn /\ w.meta \in {"vg", "lv"} IN
  [w |-> IF good /\ w.meta = "lv" THEN [w EXCEPT !.node = TRUE] ELSE w,
   ok |-> good]

\* lvs --noheadings -o lv_path data_vg/data_lv reports the expected path
LvsReports(w, ok) == ok /\ w.conn /\ w.meta = "lv"

\* systemctl start lvm-activate-data-vg.service: pulls in device-connect,
\* then ExecStartPre (device readable), ExecStart (vgchange -ay),
\* ExecStartPost (wait for the logical-volume node).
LvmStart(w, okNbd, ok) ==
  IF w.lvmAct THEN [w |-> w, ok |-> TRUE]
  ELSE LET n == NbdStart(w, okNbd) IN
       IF ~n.ok \/ ~w.lvmUnit.file THEN [w |-> n.w, ok |-> FALSE]
       ELSE LET a == VgActivate(n.w, ok) IN
            IF a.ok /\ a.w.node
              THEN [w |-> [a.w EXCEPT !.lvmAct = TRUE], ok |-> TRUE]
              ELSE [w |-> a.w, ok |-> FALSE]

\* mount /mnt/data
Mount(w, ok) ==
  LET good == ok /\ w.node /\ w.fs /\ ~w.mnt IN
  [w |-> IF good THEN [w EXCEPT !.mnt = TRUE] ELSE w, ok |-> good]

\* ------------------------------------------------------------------------
\* The step functions.  Each takes the host `w` and the outcomes `o` of the
\* external calls it makes, and gives the host it leaves, its result, the
\* commands it issued, the files it wrote and the branch it took.
\* ------------------------------------------------------------------------
Ret(w, res, log, files, br) ==
  [w |-> w, res |-> res, log |-> log, files |-> files, branch |-> br]

\* step_prereqs: root check, user check, groups created when missing
PrereqOutcomes == [root : BOOLEAN, gaddUsers : BOOLEAN, gaddDisk : BOOLEAN]
step_prereqs(w, o) ==
  IF ~o.root THEN Ret(w, "fail", << >>, {}, "not_root")
  ELSE IF ~w.user THEN Ret(w, "fail", << >>, {}, "no_user")
  ELSE
    LET needU == DEBIAN_GROUP \notin w.groups
        g1 == IF needU /\ o.gaddUsers THEN w.groups \cup {DEBIAN_GROUP} ELSE w.groups
        l1 == IF needU THEN << "groupadd users" >> ELSE << >>
        needD == "disk" \notin g1
        g2 == IF needD /\ o.gaddDisk THEN g1 \cup {"disk"} ELSE g1
        l2 == IF needD THEN Append(l1, "groupadd -r disk") ELSE l1
    IN IF needD /\ ~o.gaddDisk
         THEN Ret([w EXCEPT !.groups = g2], "fail", l2, {}, "no_disk_group")
         ELSE Ret([w EXCEPT !.groups = g2], "ok", l2, {},
                  IF needU \/ needD THEN "groups_created" ELSE "satisfied")

\* step_create_qcow
QcowOutcomes == [confirm : BOOLEAN, create : BOOLEAN, perm : BOOLEAN]
step_create_qcow(w, o, non_interactive) ==
  IF w.img.exists THEN Ret(w, "ok", << >>, {}, "satisfied")
  ELSE IF ~(non_interactive \/ o.confirm) THEN Ret(w, "fail", << >>, {}, "aborted")
  ELSE IF ~o.create THEN Ret(w, "fail", << "qemu-img create" >>, {}, "create_failed")
  ELSE
    LET made == [w EXCEPT !.img = Image("0644", "root", "root")] IN
    IF "disk" \notin w.groups
      THEN Ret(made, "fail", << "qemu-img create" >>, {LOCAL_QCOW_PATH}, "no_disk_group")
    ELSE IF ~o.perm   \* chmod or chown raises: the new file is unlinked
      THEN Ret(w, "fail", << "qemu-img create" >>, {LOCAL_QCOW_PATH}, "perm_failed")
    ELSE Ret([w EXCEPT !.img = Image("0660", "root", "disk")], "ok",
             << "qemu-img create", "chmod", "chown", "ls -lh" >>,
             {LOCAL_QCOW_PATH}, "created")

\* step_qcow_perms
PermOutcomes == [chmod : BOOLEAN, chown : BOOLEAN]

\* current_mode = st_mode & 0o777: the permission bits of a mode, without the
\* setuid, setgid and sticky bits ("1660" is 0660 with the sticky bit)
PermBits(mode) == IF mode = "1660" THEN "0660" ELSE mode

step_qcow_perms(w, o) ==
  IF ~w.img.exists THEN Ret(w, "fail", << >>, {}, "no_image")
  ELSE IF "disk" \notin w.groups THEN Ret(w, "fail", << >>, {}, "no_disk_group")
  ELSE
    LET needs_chmod == PermBits(w.img.mode) # "0660"
        needs_chown == w.img.owner # "root" \/ w.img.group # "disk"
        l1 == IF needs_chmod THEN << "chmod" >> ELSE << >>
        w1 == IF needs_chmod THEN [w EXCEPT !.img.mode = "0660"] ELSE w
        l2 == IF needs_chown THEN Append(l1, "chown") ELSE l1
        w2 == IF needs_chown
                THEN [w1 EXCEPT !.img.owner = "root", !.img.group = "disk"]
                ELSE w1
    IN IF needs_chmod /\ ~o.chmod THEN Ret(w, "fail", l1, {}, "chmod_failed")
       ELSE IF needs_chown /\ ~o.chown THEN Ret(w1, "fail", l2, {}, "chown_failed")
       ELSE Ret(w2, "ok",
                IF needs_chmod \/ needs_chown THEN Append(l2, "ls -lh") ELSE l2,
                {}, IF needs_chmod \/ needs_chown THEN "changed" ELSE "satisfied")

\* step_nbd_service and step_lvm_service: write_file, which unlinks the file
\* when the write fails
WriteOutcomes == [write : BOOLEAN]
step_nbd_service(w, o) ==
  IF o.write
    THEN Ret([w EXCEPT !.nbdUnit = NbdUnitContent], "ok", << >>, {NBD_UNIT}, "written")
    ELSE Ret([w EXCEPT !.nbdUnit = NoUnit], "fail", << >>, {}, "write_failed")

step_lvm_service(w, o) ==
  IF o.write
    THEN Ret([w EXCEPT !.lvmUnit = LvmUnitContent], "ok", << >>, {LVM_UNIT}, "written")
    ELSE Ret([w EXCEPT !.lvmUnit = NoUnit], "fail", << >>, {}, "write_failed")

\* The in-process wait for the logical-volume node: for attempt in range(15).
\* The node is a block device from evaluation number appearAt on.
LvWaitAttempts == 15
RECURSIVE WaitLvNode(_, _)
WaitLvNode(attempt, appearAt) ==
  IF attempt >= LvWaitAttempts THEN [node_appeared |-> FALSE, evals |-> attempt]
  ELSE IF attempt + 1 >= appearAt THEN [node_appeared |-> TRUE, evals |-> attempt + 1]
  ELSE WaitLvNode(attempt + 1, appearAt)

\* The try block of step_lvm_setup: pvcreate, vgcreate, lvcreate, wait for
\* the node, mkfs.ext4; the except clause lists the volume-manager status.
\* (an outcome is left at its good value once an earlier call has failed, as
\* the later calls are then never made)
LvmOutcomes ==
  { o \in [lvs : BOOLEAN, act : BOOLEAN, start : BOOLEAN, nbdNode : BOOLEAN,
           pv : BOOLEAN, vg : BOOLEAN, lv : BOOLEAN,
           appearAt : {1, 2, LvWaitAttempts, LvWaitAttempts + 1},
           mkfs : BOOLEAN, stop : BOOLEAN] :
      /\ ~o.start => o.nbdNode
      /\ ~o.nbdNode => o.pv
      /\ ~o.pv => o.vg
      /\ ~o.vg => o.lv
      /\ ~o.lv => o.appearAt = 1
      /\ o.appearAt > LvWaitAttempts => o.mkfs }
StatusCmds == << "pvs", "vgs", "lvs" >>

\* (mutant) the logical volume is never formatted
LvmCreation_NoMkfs(w, o) ==
  LET wPv == [w EXCEPT !.meta = "pv", !.fs = FALSE]
      wVg == [wPv EXCEPT !.meta = "vg"]
      wLv == [wVg EXCEPT !.meta = "lv"]
      wait == WaitLvNode(0, o.appearAt)
      wNode == [wLv EXCEPT !.node = TRUE]
      Failed(w1, log) == [w |-> w1, lvm_success |-> FALSE, log |-> log \o StatusCmds]
  IN IF ~o.pv THEN Failed(w, << "pvcreate" >>)
     ELSE IF ~o.vg THEN Failed(wPv, << "pvcreate", "vgcreate" >>)
     ELSE IF ~o.lv THEN Failed(wVg, << "pvcreate", "vgcreate", "lvcreate" >>)
     ELSE IF ~wait.node_appeared
       THEN Failed(wLv, << "pvcreate", "vgcreate", "lvcreate", "lsblk" >>)
     ELSE [w |-> wNode, lvm_success |-> TRUE,
           log |-> << "pvcreate", "vgcreate", "lvcreate", "udevadm settle" >>]

\* (mutant) the filesystem is made although the node never appeared
LvmCreation_NoWait(w, o) ==
  LET wPv == [w EXCEPT !.meta = "pv", !.fs = FALSE]
      wVg == [wPv EXCEPT !.meta = "vg"]
      wLv == [wVg EXCEPT !.meta = "lv"]
      wait == WaitLvNode(0, o.appearAt)
      wNode == [wLv EXCEPT !.node = TRUE]
      wFs == [wNode EXCEPT !.fs = TRUE]
      Failed(w1, log) == [w |-> w1, lvm_success |-> FALSE, log |-> log \o StatusCmds]
  IN IF ~o.pv THEN Failed(w, << "pvcreate" >>)
     ELSE IF ~o.vg THEN Failed(wPv, << "pvcreate", "vgcreate" >>)
     ELSE IF ~o.lv THEN Failed(wVg, << "pvcreate", "vgcreate", "lvcreate" >>)
     ELSE IF ~wait.node_appeared
       THEN [w |-> [wLv EXCEPT !.fs = TRUE], lvm_success |-> TRUE,
             log |-> << "pvcreate", "vgcreate", "lvcreate", "lsblk",
                        "mkfs.ext4" >>]
     ELSE IF ~o.mkfs
       THEN Failed(wNode, << "pvcreate", "vgcreate", "lvcreate", "udevadm settle",
                             "mkfs.ext4" >>)
     ELSE [w |-> wFs, lvm_success |-> TRUE,
           log |-> << "pvcreate", "vgcreate", "lvcreate", "udevadm settle",
                      "mkfs.ext4" >>]

LvmCreation(w, o) ==
  LET wPv == [w EXCEPT !.meta = "pv", !.fs = FALSE]
      wVg == [wPv EXCEPT !.meta = "vg"]
      wLv == [wVg EXCEPT !.meta = "lv"]
      wait == WaitLvNode(0, o.appearAt)
      wNode == [wLv EXCEPT !.node = TRUE]
      wFs == [wNode EXCEPT !.fs = TRUE]
      Failed(w1, log) == [w |-> w1, lvm_success |-> FALSE, log |-> log \o StatusCmds]
  IN IF ~o.pv THEN Failed(w, << "pvcreate" >>)
     ELSE IF ~o.vg THEN Failed(wPv, << "pvcreate", "vgcreate" >>)
     ELSE IF ~o.lv THEN Failed(wVg, << "pvcreate", "vgcreate", "lvcreate" >>)
     ELSE IF ~wait.node_appeared
       THEN Failed(wLv, << "pvcreate", "vgcreate", "lvcreate", "lsblk" >>)
     ELSE IF ~o.mkfs
       THEN Failed(wNode, << "pvcreate", "vgcreate", "lvcreate", "udevadm settle",
                             "mkfs.ext4" >>)
     ELSE [w |-> wFs, lvm_success |-> TRUE,
           log |-> << "pvcreate", "vgcreate", "lvcreate", "udevadm settle",
                      "mkfs.ext4" >>]

StartNbdCmd == "systemctl start qemu-nbd-connect.service"
StopNbdCmd == "systemctl stop qemu-nbd-connect.service"
StartLvmCmd == "systemctl start lvm-activate-data-vg.service"

\* (mutant) a failed creation returns at once, leaving the device connected
step_lvm_setup_NoRelease(w, o) ==
  IF LvsReports(w, o.lvs)
    THEN Ret(VgActivate(w, o.act).w, "ok", << "lvs --noheadings", "vgchange -ay" >>,
             {}, "satisfied")
  ELSE IF w.node
    THEN Ret(VgActivate(w, o.act).w, "ok", << "lvs --noheadings", "vgchange -ay" >>,
             {}, "satisfied_fallback")
  ELSE
    LET pre == << "lvs --noheadings", "systemctl daemon-reload", StartNbdCmd >>
        st == NbdStart(w, o.start)
    IN IF ~st.ok
         THEN Ret(NbdStop(st.w, o.stop), "fail",
                  pre \o << "journalctl", StopNbdCmd >>, {}, "start_failed")
       ELSE IF ~o.nbdNode
         THEN Ret(NbdStop(st.w, o.stop), "fail",
                  pre \o << "lsblk", StopNbdCmd >>, {}, "no_nbd_node")
       ELSE LET c == LvmCreation(st.w, o) IN
            IF c.lvm_success
              THEN Ret(NbdStop(c.w, o.stop), "ok", pre \o c.log \o << StopNbdCmd >>,
                       {}, "created")
              ELSE Ret(c.w, "fail", pre \o c.log, {}, "creation_failed")

\* (mutant) a volume found only by its device node is connected again first
step_lvm_setup_FallbackStarts(w, o) ==
  IF LvsReports(w, o.lvs)
    THEN Ret(VgActivate(w, o.act).w, "ok", << "lvs --noheadings", "vgchange -ay" >>,
             {}, "satisfied")
  ELSE IF w.node
    THEN Ret(VgActivate(NbdStart(w, o.start).w, o.act).w, "ok",
             << "lvs --noheadings", StartNbdCmd, "vgchange -ay" >>,
             {}, "satisfied_fallback")
  ELSE
    LET pre == << "lvs --noheadings", "systemctl daemon-reload", StartNbdCmd >>
        st == NbdStart(w, o.start)
    IN IF ~st.ok
         THEN Ret(NbdStop(st.w, o.stop), "fail",
                  pre \o << "journalctl", StopNbdCmd >>, {}, "start_failed")
       ELSE IF ~o.nbdNode
         THEN Ret(NbdStop(st.w, o.stop), "fail",
                  pre \o << "lsblk", StopNbdCmd >>, {}, "no_nbd_node")
       ELSE LET c == LvmCreation(st.w, o) IN
            Ret(NbdStop(c.w, o.stop),
                IF c.lvm_success THEN "ok" ELSE "fail",
                pre \o c.log \o << StopNbdCmd >>, {},
                IF c.lvm_success THEN "created" ELSE "creation_failed")

\* (mutant) the fallback check of the device node is left out
step_lvm_setup_NoFallback(w, o) ==
  IF LvsReports(w, o.lvs)
    THEN Ret(VgActivate(w, o.act).w, "ok", << "lvs --noheadings", "vgchange -ay" >>,
             {}, "satisfied")
  ELSE
    LET pre == << "lvs --noheadings", "systemctl daemon-reload", StartNbdCmd >>
        st == NbdStart(w, o.start)
    IN IF ~st.ok
         THEN Ret(NbdStop(st.w, o.stop), "fail",
                  pre \o << "journalctl", StopNbdCmd >>, {}, "start_failed")
       ELSE IF ~o.nbdNode
         THEN Ret(NbdStop(st.w, o.stop), "fail",
                  pre \o << "lsblk", StopNbdCmd >>, {}, "no_nbd_node")
       ELSE LET c == LvmCreation(st.w, o) IN
            Ret(NbdStop(c.w, o.stop),
                IF c.lvm_success THEN "ok" ELSE "fail",
                pre \o c.log \o << StopNbdCmd >>, {},
                IF c.lvm_success THEN "created" ELSE "creation_failed")

step_lvm_setup(w, o) ==
  IF LvsReports(w, o.lvs)
    THEN Ret(VgActivate(w, o.act).w, "ok", << "lvs --noheadings", "vgchange -ay" >>,
             {}, "satisfied")
  ELSE IF w.node
    THEN Ret(VgActivate(w, o.act).w, "ok", << "lvs --noheadings", "vgchange -ay" >>,
             {}, "satisfied_fallback")
  ELSE
    LET pre == << "lvs --noheadings", "systemctl daemon-reload", StartNbdCmd >>
        st == NbdStart(w, o.start)
    IN IF ~st.ok
         THEN Ret(NbdStop(st.w, o.stop), "fail",
                  pre \o << "journalctl", StopNbdCmd >>, {}, "start_failed")
       ELSE IF ~o.nbdNode
         THEN Ret(NbdStop(st.w, o.stop), "fail",
                  pre \o << "lsblk", StopNbdCmd >>, {}, "no_nbd_node")
       ELSE LET c == LvmCreation(st.w, o) IN
            Ret(NbdStop(c.w, o.stop),
                IF c.lvm_success THEN "ok" ELSE "fail",
                pre \o c.log \o << StopNbdCmd >>, {},
                IF c.lvm_success THEN "created" ELSE "creation_failed")

\* step_fstab
FstabOutcomes ==
  [chown : BOOLEAN, backup : BOOLEAN, write : BOOLEAN, act : BOOLEAN, mount : BOOLEAN]

\* The immediate mount test at the end of step_fstab
MountTest(w, o) ==
  LET a == VgActivate(w, o.act) IN
  IF a.ok /\ a.w.node
    THEN LET m == Mount(a.w, o.mount) IN
         [w |-> m.w,
          log |-> IF m.ok THEN << "vgchange -ay", "mount" >>
                  ELSE << "vgchange -ay", "mount", "mountpoint -q" >>]
    ELSE [w |-> a.w, log |-> << "vgchange -ay" >>]

\* (mutant) a mount test that does not end with the volume mounted fails the step
step_fstab_MountFatal(w, o) ==
  IF ~w.user \/ DEBIAN_GROUP \notin w.groups
    THEN Ret(w, "fail", << >>, {}, "no_user_or_group")
  ELSE IF ~o.chown THEN Ret(w, "fail", << >>, {}, "mountpoint_failed")
  ELSE IF ~w.fstab.file THEN Ret(w, "fail", << >>, {}, "no_fstab")
  ELSE
    LET found == ScanFstab(w.fstab)
        wBak == [w EXCEPT !.backups = Append(@, w.fstab)]
        wNew == [wBak EXCEPT !.fstab = AppendEntry(w.fstab)]
        Res(t) == IF t.w.mnt THEN "ok" ELSE "fail"
    IN IF found = "conflict_exists" THEN Ret(w, "fail", << >>, {}, "conflict")
       ELSE IF found = "entry_exists"
         THEN LET t == MountTest(w, o) IN Ret(t.w, Res(t), t.log, {}, "satisfied")
       ELSE IF ~o.backup THEN Ret(w, "fail", << >>, {}, "backup_failed")
       ELSE IF ~o.write THEN Ret(wBak, "fail", << >>, {"fstab.bak"}, "write_failed")
       ELSE LET t == MountTest(wNew, o) IN
            Ret(t.w, Res(t), t.log, {"fstab.bak", FSTAB_FILE}, "appended")

\* (mutant) the mount table is written although the backup could not be made
step_fstab_NoBackup(w, o) ==
  IF ~w.user \/ DEBIAN_GROUP \notin w.groups
    THEN Ret(w, "fail", << >>, {}, "no_user_or_group")
  ELSE IF ~o.chown THEN Ret(w, "fail", << >>, {}, "mountpoint_failed")
  ELSE IF ~w.fstab.file THEN Ret(w, "fail", << >>, {}, "no_fstab")
  ELSE
    LET found == ScanFstab(w.fstab)
        wBak == IF o.backup THEN [w EXCEPT !.backups = Append(@, w.fstab)] ELSE w
        wNew == [wBak EXCEPT !.fstab = AppendEntry(w.fstab)]
    IN IF found = "conflict_exists" THEN Ret(w, "fail", << >>, {}, "conflict")
       ELSE IF found = "entry_exists"
         THEN LET t == MountTest(w, o) IN Ret(t.w, "ok", t.log, {}, "satisfied")
       ELSE IF ~o.write THEN Ret(wBak, "fail", << >>, {"fstab.bak"}, "write_failed")
       ELSE LET t == MountTest(wNew, o) IN
            Ret(t.w, "ok", t.log, {"fstab.bak", FSTAB_FILE}, "appended")

step_fstab(w, o) ==
  IF ~w.user \/ DEBIAN_GROUP \notin w.groups
    THEN Ret(w, "fail", << >>, {}, "no_user_or_group")
  ELSE IF ~o.chown THEN Ret(w, "fail", << >>, {}, "mountpoint_failed")
  ELSE IF ~w.fstab.file THEN Ret(w, "fail", << >>, {}, "no_fstab")
  ELSE
    LET found == ScanFstab(w.fstab)
        wBak == [w EXCEPT !.backups = Append(@, w.fstab)]
        wNew == [wBak EXCEPT !.fstab = AppendEntry(w.fstab)]
    IN IF found = "conflict_exists" THEN Ret(w, "fail", << >>, {}, "conflict")
       ELSE IF found = "entry_exists"
         THEN LET t == MountTest(w, o) IN Ret(t.w, "ok", t.log, {}, "satisfied")
       ELSE IF ~o.backup THEN Ret(w, "fail", << >>, {}, "backup_failed")
       ELSE IF ~o.write THEN Ret(wBak, "fail", << >>, {"fstab.bak"}, "write_failed")
       ELSE LET t == MountTest(wNew, o) IN
            Ret(t.w, "ok", t.log, {"fstab.bak", FSTAB_FILE}, "appended")

\* step_enable_storage_services
EnableOutcomes ==
  { o \in [reload : BOOLEAN, enNbd : BOOLEAN, enLvm : BOOLEAN, startNbd : BOOLEAN,
           startNbd2 : BOOLEAN, startLvm : BOOLEAN] :
      /\ ~o.reload => (o.enNbd /\ o.enLvm)
      /\ ~(o.enNbd /\ o.enLvm) => (o.startNbd /\ o.startNbd2 /\ o.startLvm)
      /\ o.startNbd => o.startNbd2 }
\* (mutant) the second enable call is skipped when the first one failed
step_enable_storage_services_ShortCircuit(w, o) ==
  IF ~o.reload THEN Ret(w, "fail", << "systemctl daemon-reload" >>, {}, "reload_failed")
  ELSE
    LET nbd_enabled_ok == o.enNbd /\ w.nbdUnit.file
        lvm_enabled_ok == nbd_enabled_ok /\ o.enLvm /\ w.lvmUnit.file
        wEn == [w EXCEPT !.enabled = @ \cup (IF nbd_enabled_ok THEN {NBD_UNIT} ELSE {})
                                         \cup (IF lvm_enabled_ok THEN {LVM_UNIT} ELSE {})]
        en == IF nbd_enabled_ok
              THEN << "systemctl daemon-reload",
                      "systemctl enable qemu-nbd-connect.service",
                      "systemctl enable lvm-activate-data-vg.service" >>
              ELSE << "systemctl daemon-reload",
                      "systemctl enable qemu-nbd-connect.service" >>
    IN IF nbd_enabled_ok /\ lvm_enabled_ok
         THEN LET s1 == NbdStart(wEn, o.startNbd)
                  s2 == LvmStart(s1.w, o.startNbd2, o.startLvm)
              IN Ret(s2.w, "ok", en \o << StartNbdCmd, StartLvmCmd >>, {},
                     IF nbd_enabled_ok /\ {NBD_UNIT, LVM_UNIT} \subseteq w.enabled
                       THEN "satisfied" ELSE "enabled")
         ELSE Ret(wEn, "fail", Append(en, "systemctl status"), {}, "enable_failed")

step_enable_storage_services(w, o) ==
  IF ~o.reload THEN Ret(w, "fail", << "systemctl daemon-reload" >>, {}, "reload_failed")
  ELSE
    LET nbd_enabled_ok == o.enNbd /\ w.nbdUnit.file
        lvm_enabled_ok == o.enLvm /\ w.lvmUnit.file
        wEn == [w EXCEPT !.enabled = @ \cup (IF nbd_enabled_ok THEN {NBD_UNIT} ELSE {})
                                         \cup (IF lvm_enabled_ok THEN {LVM_UNIT} ELSE {})]
        en == << "systemctl daemon-reload", "systemctl enable qemu-nbd-connect.service",
                 "systemctl enable lvm-activate-data-vg.service" >>
    IN IF nbd_enabled_ok /\ lvm_enabled_ok
         THEN LET s1 == NbdStart(wEn, o.startNbd)
                  s2 == LvmStart(s1.w, o.startNbd2, o.startLvm)
              IN Ret(s2.w, "ok", en \o << StartNbdCmd, StartLvmCmd >>, {},
                     IF nbd_enabled_ok /\ {NBD_UNIT, LVM_UNIT} \subseteq w.enabled
                       THEN "satisfied" ELSE "enabled")
         ELSE Ret(wEn, "fail", Append(en, "systemctl status"), {}, "enable_failed")

\* ------------------------------------------------------------------------
\* main()
\* ------------------------------------------------------------------------
Range(seq) == { seq[k] : k \in 1..Len(seq) }
AllTrue(o) == \A f \in DOMAIN o : o[f]
LvmAllOk(o) ==
  /\ \A f \in DOMAIN o \ {"appearAt"} : o[f]
  /\ o.appearAt <= LvWaitAttempts

\* The check of the step order before the loop: 0 when it passes, else the
\* status main exits with.
\* (mutant) the order check compares the enable step with the LVM step only
VerifyOrder_LvmOnly(steps) ==
  LET lvm_idx == IndexOf(steps, "step_lvm_setup")
      fstab_idx == IndexOf(steps, "step_fstab")
      enable_svc_idx == IndexOf(steps, "step_enable_storage_services")
  IN IF lvm_idx = 0 \/ fstab_idx = 0 \/ enable_svc_idx = 0 THEN 98
     ELSE IF ~(enable_svc_idx > lvm_idx) THEN 99
     ELSE 0

VerifyOrder(steps) ==
  LET lvm_idx == IndexOf(steps, "step_lvm_setup")
      fstab_idx == IndexOf(steps, "step_fstab")
      enable_svc_idx == IndexOf(steps, "step_enable_storage_services")
  IN IF lvm_idx = 0 \/ fstab_idx = 0 \/ enable_svc_idx = 0 THEN 98
     ELSE IF ~(enable_svc_idx > lvm_idx /\ enable_svc_idx > fstab_idx) THEN 99
     ELSE 0

\* (mutant) the loop does not break on a failed step
LoopControl_NoBreak(res, idx) ==
  IF idx < NSteps
    THEN [pc |-> "loop", i |-> idx + 1, exitCode |-> -1]
    ELSE [pc |-> "exited", i |-> idx, exitCode |-> IF res = "ok" THEN 0 ELSE 1]

\* The body of the loop after step_func returned `res`: go on to the next
\* step, or break and sys.exit(1); after the last step, sys.exit(0).
LoopControl(res, idx) ==
  IF res = "ok"
    THEN IF idx < NSteps
           THEN [pc |-> "loop", i |-> idx + 1, exitCode |-> -1]
           ELSE [pc |-> "exited", i |-> idx, exitCode |-> 0]
    ELSE [pc |-> "exited", i |-> idx, exitCode |-> 1]

MainLoop(name, res) ==
  LET c == LoopControl(res, i) IN
  /\ invoked' = Append(invoked, name)
  /\ results' = Append(results, res)
  /\ pc' = c.pc /\ i' = c.i /\ exitCode' = c.exitCode
  /\ UNCHANGED << run, nonInteractive >>

\* One iteration of the loop on a storage step that returned r
Apply(name, r, ok) ==
  /\ SetHost(r.w)
  /\ cmds' = r.log
  /\ destr' = destr \cup (Range(r.log) \cap Destructive)
  /\ written' = written \cup r.files
  /\ branch' = [branch EXCEPT ![name] = r.branch]
  /\ envOk' = (envOk /\ ok)
  /\ UNCHANGED << start, prevExit, prevLvm >>
  /\ UNCHANGED << pollVars, bootVars, cmdVars >>
  /\ MainLoop(name, r.res)

At(name) == pc = "loop" /\ installer_steps[i] = name

\* Argument parsing, the initial confirmation and the step-order check
MainStart ==
  /\ pc = "start"
  /\ \E ni \in BOOLEAN, proceed \in BOOLEAN :
       /\ nonInteractive' = ni
       /\ IF ~ni /\ ~proceed
            THEN pc' = "exited" /\ exitCode' = 1
            ELSE IF VerifyOrder(registered) # 0
              THEN pc' = "exited" /\ exitCode' = VerifyOrder(registered)
              ELSE pc' = "loop" /\ exitCode' = -1
       /\ envOk' = (envOk /\ (ni \/ proceed))
  /\ UNCHANGED << i, run, invoked, results >>
  /\ UNCHANGED hostVars
  /\ UNCHANGED << cmds, destr, written, branch, start, prevExit, prevLvm >>
  /\ UNCHANGED << pollVars, bootVars, cmdVars >>

Prereqs ==
  /\ At("step_prereqs")
  /\ \E o \in PrereqOutcomes : Apply("step_prereqs", step_prereqs(Host, o), AllTrue(o))

CreateQcow ==
  /\ At("step_create_qcow")
  /\ \E o \in QcowOutcomes :
       Apply("step_create_qcow", step_create_qcow(Host, o, nonInteractive), AllTrue(o))

QcowPerms ==
  /\ At("step_qcow_perms")
  /\ \E o \in PermOutcomes : Apply("step_qcow_perms", step_qcow_perms(Host, o), AllTrue(o))

NbdService ==
  /\ At("step_nbd_service")
  /\ \E o \in WriteOutcomes : Apply("step_nbd_service", step_nbd_service(Host, o), AllTrue(o))

LvmService ==
  /\ At("step_lvm_service")
  /\ \E o \in WriteOutcomes : Apply("step_lvm_service", step_lvm_service(Host, o), AllTrue(o))

LvmSetup ==
  /\ At("step_lvm_setup")
  /\ \E o \in LvmOutcomes : Apply("step_lvm_setup", step_lvm_setup(Host, o), LvmAllOk(o))

Fstab ==
  /\ At("step_fstab")
  /\ \E o \in FstabOutcomes : Apply("step_fstab", step_fstab(Host, o), AllTrue(o))

EnableStorageServices ==
  /\ At("step_enable_storage_services")
  /\ \E o \in EnableOutcomes :
       Apply("step_enable_storage_services", step_enable_storage_services(Host, o),
             AllTrue(o))

\* Any other registered step: it leaves the storage chain alone and returns
\* True, returns False (or None), or raises.
OtherStep ==
  /\ pc = "loop"
  /\ installer_steps[i] \notin StorageSteps
  /\ \E res \in {"ok", "fail", "raise"} :
       /\ envOk' = (envOk /\ res = "ok")
       /\ MainLoop(installer_steps[i], res)
  /\ cmds' = << >>
  /\ UNCHANGED << destr, written, branch, start, prevExit, prevLvm >>
  /\ UNCHANGED hostVars
  /\ UNCHANGED << pollVars, bootVars, cmdVars >>

\* What a run remembers of the host it started on
Snapshot(w) ==
  [fstab |-> w.fstab, backups |-> w.backups,
   fresh |-> /\ ~w.img.exists /\ ~w.conn /\ w.meta = "none" /\ ~w.node
             /\ w.user /\ w.fstab.file
             /\ RefMountpoint(w.fstab) = {} /\ RefDevice(w.fstab) = {},
   inPlace |-> /\ w.img.exists /\ w.meta = "lv" /\ w.fs
               /\ w.fstab.file /\ HasExact(w.fstab) /\ ~HasConflict(w.fstab)
               /\ w.nbdUnit = NbdUnitContent /\ w.lvmUnit = LvmUnitContent]

NoBranch == [s \in StorageSteps |-> "none"]

\* The script is invoked again on the host the previous run left
Rerun ==
  /\ pc = "exited"
  /\ run < MaxRuns
  /\ run' = run + 1
  /\ pc' = "start" /\ i' = 1 /\ exitCode' = -1
  /\ invoked' = << >> /\ results' = << >>
  /\ prevExit' = exitCode
  /\ prevLvm' = branch["step_lvm_setup"]
  /\ cmds' = << >> /\ destr' = {} /\ written' = {} /\ branch' = NoBranch
  /\ envOk' = TRUE
  /\ start' = Snapshot(Host)
  /\ UNCHANGED nonInteractive
  /\ UNCHANGED hostVars
  /\ UNCHANGED << pollVars, bootVars, cmdVars >>

\* ------------------------------------------------------------------------
\* Initial hosts
\* ------------------------------------------------------------------------
RootLine == << "/dev/sda1", "/", "ext4", "defaults", "0", "1" >>
PlainFstab == Content(<< RootLine >>, TRUE)
ManagedFstab == Content(<< RootLine, fstab_comment_line, fstab_entry_line >>, TRUE)
GoodImage == Image("0660", "root", "disk")

\* The storage chain in every consistent state: no metadata without an
\* image, no binding without image and unit, no node without a logical
\* volume, no mount without node and filesystem.
StorageInits ==
  { s \in [img : {NoImage, GoodImage}, meta : {"none", "pv", "vg", "lv"},
           fs : BOOLEAN, units : BOOLEAN, conn : BOOLEAN, lvmAct : BOOLEAN,
           node : BOOLEAN, mnt : BOOLEAN, managed : BOOLEAN] :
      /\ ~s.img.exists => (s.meta = "none" /\ ~s.conn)
      /\ s.fs => s.meta = "lv"
      /\ s.conn => (s.units /\ s.img.exists)
      /\ s.node => s.meta = "lv"
      /\ s.lvmAct => (s.conn /\ s.node)
      /\ s.mnt => (s.node /\ s.fs /\ s.managed) }

HostOf(s) ==
  [user |-> TRUE, groups |-> {DEBIAN_GROUP, "disk"}, img |-> s.img, conn |-> s.conn,
   lvmAct |-> s.lvmAct, meta |-> s.meta, fs |-> s.fs, node |-> s.node, mnt |-> s.mnt,
   fstab |-> IF s.managed THEN ManagedFstab ELSE PlainFstab,
   backups |-> << >>,
   nbdUnit |-> IF s.units THEN NbdUnitContent ELSE NoUnit,
   lvmUnit |-> IF s.units THEN LvmUnitContent ELSE NoUnit,
   enabled |-> IF s.units THEN {NBD_UNIT, LVM_UNIT} ELSE {}]

FreshHost ==
  HostOf([img |-> NoImage, meta |-> "none", fs |-> FALSE, units |-> FALSE,
          conn |-> FALSE, lvmAct |-> FALSE, node |-> FALSE, mnt |-> FALSE,
          managed |-> FALSE])
ProvisionedHost ==
  HostOf([img |-> GoodImage, meta |-> "lv", fs |-> TRUE, units |-> TRUE,
          conn |-> TRUE, lvmAct |-> TRUE, node |-> TRUE, mnt |-> FALSE,
          managed |-> TRUE])

\* The same two hosts with a user, a group, the image's permissions or the
\* mount table in another state
Variants(w) ==
  { [w EXCEPT !.user = FALSE],
    [w EXCEPT !.groups = {DEBIAN_GROUP}],
    [w EXCEPT !.groups = {}],
    [w EXCEPT !.fstab = NoFile],
    [w EXCEPT !.fstab = Content(<< RootLine,
                 << "/dev/other", LVM_MOUNT_POINT, "ext4", "defaults", "0", "2" >> >>, FALSE)],
    [w EXCEPT !.fstab = Content(<< fstab_entry_line,
                 << "/dev/other", LVM_MOUNT_POINT, "ext4", "defaults", "0", "2" >> >>, TRUE)],
    [w EXCEPT !.fstab = Content(<< fstab_entry_line,
                 << LV_DEVICE_PATH, "/mnt/other", "ext4", "defaults", "0", "2" >> >>, TRUE)] }

InitHosts ==
  { HostOf(s) : s \in StorageInits }
    \cup Variants(FreshHost) \cup Variants(ProvisionedHost)
    \cup { [ProvisionedHost EXCEPT !.img = Image("0644", "droid", "users")] }

InitMain ==
  /\ pc = "start" /\ i = 1 /\ run = 1 /\ exitCode = -1
  /\ invoked = << >> /\ results = << >>
  /\ nonInteractive = FALSE

InitObs(w) ==
  /\ cmds = << >> /\ destr = {} /\ written = {} /\ branch = NoBranch
  /\ envOk = TRUE /\ prevExit = -1 /\ prevLvm = "none"
  /\ start = Snapshot(w)

InitHost(w) ==
  /\ userExists = w.user /\ groups = w.groups /\ img = w.img
  /\ nbdConn = w.conn /\ lvmActive = w.lvmAct /\ lvmMeta = w.meta
  /\ fs = w.fs /\ lvNode = w.node /\ mounted = w.mnt /\ fstab = w.fstab
  /\ backups = w.backups /\ nbdUnit = w.nbdUnit /\ lvmUnit = w.lvmUnit
  /\ enabled = w.enabled

\* No readiness loop and no transaction of the service manager is modelled
IdlePoll ==
  /\ ploop = "none" /\ ptries = 0 /\ pevals = 0 /\ psleeps = 0
  /\ pstate = "none" /\ pallFalse = TRUE
IdleBoot == bmode = "none" /\ bjobs = << >>
NoCall == [pc |-> "none"]
IdleCmd == rc = NoCall /\ registered = installer_steps

Init ==
  /\ InitMain
  /\ \E w \in InitHosts : InitHost(w) /\ InitObs(w)
  /\ IdlePoll
  /\ IdleBoot
  /\ IdleCmd

Next ==
  \/ MainStart
  \/ Prereqs
  \/ CreateQcow
  \/ QcowPerms
  \/ NbdService
  \/ LvmService
  \/ LvmSetup
  \/ Fstab
  \/ EnableStorageServices
  \/ OtherStep
  \/ Rerun

vars == << mainVars, hostVars, obsVars, pollVars, bootVars, cmdVars >>

Spec == Init /\ [][Next]_vars

\* ------------------------------------------------------------------------
\* Properties of a provisioning run (Spec)
\* ------------------------------------------------------------------------
Last(seq) == seq[Len(seq)]
Count(seq, x) == Cardinality({ k \in 1..Len(seq) : seq[k] = x })
JustRan(name) == invoked # << >> /\ Last(invoked) = name
Done == pc = "exited"

\* C1: a second run that follows a successful first run issues no
\* destructive command, and the steps that can find their work done (image,
\* volumes, mount table) take that branch.
C1_Idempotence ==
  (run >= 2 /\ prevExit = 0) =>
    /\ destr = {}
    /\ branch["step_create_qcow"] \in {"none", "satisfied"}
    /\ branch["step_lvm_setup"] \in {"none", "satisfied", "satisfied_fallback"}
    /\ branch["step_fstab"] \in {"none", "satisfied"}

\* C2 (as claimed): a run on a host with everything in place writes no file.
C2_NoFileWritten == start.inPlace => written = {}

\* C2 (amended): a run on a host with everything in place leaves the mount
\* table as it was and makes no backup of it; its two unit steps, when they
\* succeed, do write their unit file, with the content it had.
C2_MountTableUntouched ==
  start.inPlace =>
    /\ fstab = start.fstab
    /\ backups = start.backups
    /\ written \cap {FSTAB_FILE, "fstab.bak"} = {}
    /\ branch["step_fstab"] \in {"none", "satisfied", "mountpoint_failed",
                                 "no_user_or_group"}
    /\ branch["step_nbd_service"] = "written" =>
         (NBD_UNIT \in written /\ nbdUnit = NbdUnitContent)
    /\ branch["step_lvm_service"] = "written" =>
         (LVM_UNIT \in written /\ lvmUnit = LvmUnitContent)
C2_Witness ==
  /\ start.inPlace /\ Done /\ exitCode = 0
  /\ written = {NBD_UNIT, LVM_UNIT}
  /\ branch["step_fstab"] = "satisfied"

\* C3: when step_lvm_setup has issued the start of the device-connect unit,
\* it issues the stop of that unit exactly once, as its last command (so
\* after every creation command), whatever path it returns by.
C3_TransientRelease ==
  (JustRan("step_lvm_setup") /\ Count(cmds, StartNbdCmd) > 0) =>
    /\ Count(cmds, StartNbdCmd) = 1
    /\ Count(cmds, StopNbdCmd) = 1
    /\ Last(cmds) = StopNbdCmd
    /\ \A k \in 1..Len(cmds) :
         cmds[k] \in Destructive => k < Len(cmds)
C3_Witness ==
  /\ JustRan("step_lvm_setup")
  /\ branch["step_lvm_setup"] = "creation_failed"
  /\ Count(cmds, "vgcreate") = 1 /\ Count(cmds, "lvcreate") = 0
  /\ Last(cmds) = StopNbdCmd

\* C9: a run that starts on a fresh host (no image, no binding, no volumes,
\* the user present, no entry of the mount table for the managed device or
\* mountpoint) and in which no prompt is declined and no external call fails
\* runs every step, and ends with status 0, the image 0660 root:disk,
\* the volumes and the filesystem made, the managed entry appended, and both
\* units enabled.
FreshRun == start.fresh /\ envOk
C10_FailFast ==
  /\ Len(results) = Len(invoked)
  /\ Len(invoked) <= NSteps
  /\ invoked = SubSeq(installer_steps, 1, Len(invoked))
  /\ \A k \in 1..(Len(results) - 1) : results[k] = "ok"
  /\ (results # << >> /\ Last(results) # "ok") => (Done /\ exitCode = 1)
  /\ (Done /\ exitCode = 0) => (Len(invoked) = NSteps /\ Last(results) = "ok")
C10_Witness ==
  /\ Done /\ exitCode = 1
  /\ Len(invoked) = IndexOf(installer_steps, "step_fstab")
  /\ Last(results) = "fail"
  /\ \A k \in 1..(Len(results) - 1) : results[k] = "ok"

\* ------------------------------------------------------------------------
\* The bounded waits of the storage chain, one iteration at a time (PollSpec)
\*   nbd_post  ExecStartPost of qemu-nbd-connect.service
\*   lvm_pre   ExecStartPre  of lvm-activate-data-vg.service
\*   lvm_post  ExecStartPost of lvm-activate-data-vg.service
\*   py_wait   the wait for the logical-volume node in step_lvm_setup
\* pevals counts the evaluations of the readiness predicate, psleeps the
\* sleeps, pallFalse tells that every evaluation so far was false.
\* ------------------------------------------------------------------------
NbdPostTries == 60
LvmPreTries == 30
LvmPostTries == 30
PollLoops == {"nbd_post", "lvm_pre", "lvm_post", "py_wait"}
MaxAttempts(loop) ==
  CASE loop = "nbd_post" -> NbdPostTries
    [] loop = "lvm_pre" -> LvmPreTries
    [] loop = "lvm_post" -> LvmPostTries
    [] loop = "py_wait" -> LvWaitAttempts

\* (mutant) the give-up test of the post-start wait is off by one
LvmPostExhausted_OffByOne(tries) == tries < 0

\* if [ "$tries" -le 0 ]
LvmPostExhausted(tries) == tries <= 0

\* while [ $tries -gt 0 ]
TriesLeft(tries) == tries > 0

Polling(loop) == ploop = loop /\ pstate = "running"
PollReady ==
  /\ pevals' = pevals + 1
  /\ pstate' = "ready"
  /\ pallFalse' = FALSE
  /\ UNCHANGED << ploop, ptries, psleeps >>
PollRetry(sleeps, giveUp) ==
  /\ pevals' = pevals + 1
  /\ psleeps' = psleeps + sleeps
  /\ ptries' = ptries - 1
  /\ pstate' = IF giveUp THEN "timeout" ELSE "running"
  /\ UNCHANGED << ploop, pallFalse >>

\* A unit or the step reaches one of its waits
PollStart ==
  /\ pstate = "none"
  /\ \E loop \in PollLoops :
       /\ ploop' = loop
       /\ ptries' = MaxAttempts(loop)
       /\ pstate' = IF loop = "lvm_post" \/ TriesLeft(MaxAttempts(loop))
                      THEN "running" ELSE "timeout"
  /\ pevals' = 0 /\ psleeps' = 0 /\ pallFalse' = TRUE
  /\ UNCHANGED << mainVars, hostVars, obsVars, bootVars, cmdVars >>

\* One pass of the device-connect post-start loop: the device exists, has a
\* size and can be read, or the loop sleeps once and counts down
NbdPostIter ==
  /\ Polling("nbd_post")
  /\ \E exists \in BOOLEAN, size \in BOOLEAN, read \in BOOLEAN :
       IF exists /\ size /\ read THEN PollReady
       ELSE PollRetry(1, ~TriesLeft(ptries - 1))
  /\ UNCHANGED << mainVars, hostVars, obsVars, bootVars, cmdVars >>

\* One pass of the volume-activate pre-start loop: a device that exists but
\* cannot be read costs two sleeps, an absent one costs one
LvmPreIter ==
  /\ Polling("lvm_pre")
  /\ \E exists \in BOOLEAN, read \in BOOLEAN :
       IF exists /\ read THEN PollReady
       ELSE PollRetry(IF exists THEN 2 ELSE 1, ~TriesLeft(ptries - 1))
  /\ UNCHANGED << mainVars, hostVars, obsVars, bootVars, cmdVars >>

\* One pass of the volume-activate post-start loop: the test is at the head
\* of the loop, the count-down and the give-up test in its body
LvmPostIter ==
  /\ Polling("lvm_post")
  /\ \E node \in BOOLEAN :
       IF node THEN PollReady
       ELSE PollRetry(1, LvmPostExhausted(ptries - 1))
  /\ UNCHANGED << mainVars, hostVars, obsVars, bootVars, cmdVars >>

\* One pass of `for attempt in range(15)`
PyWaitIter ==
  /\ Polling("py_wait")
  /\ \E node \in BOOLEAN :
       IF node THEN PollReady
       ELSE PollRetry(1, ptries - 1 = 0)
  /\ UNCHANGED << mainVars, hostVars, obsVars, bootVars, cmdVars >>

PollInit ==
  /\ pc = "idle" /\ i = 1 /\ run = 1 /\ exitCode = -1
  /\ invoked = << >> /\ results = << >> /\ nonInteractive = TRUE
  /\ InitObs(ProvisionedHost) /\ InitHost(ProvisionedHost)
  /\ IdlePoll /\ IdleBoot /\ IdleCmd
PollNext == PollStart \/ NbdPostIter \/ LvmPreIter \/ LvmPostIter \/ PyWaitIter
PollSpec == PollInit /\ [][PollNext]_vars

\* C4: each bounded wait whose predicate is false at every evaluation
\* evaluates it exactly maxAttempts times (15 in the step; 60, 30 and 30 in
\* the units) and then reports timeout; a wait still running has evaluated
\* it fewer times and counts down, so none runs forever; timeout is
\* reported in no other case.
C4_PollerBound ==
  pstate # "none" =>
    /\ pevals <= MaxAttempts(ploop)
    /\ pstate = "running" =>
         (pallFalse /\ pevals < MaxAttempts(ploop)
            /\ ptries = MaxAttempts(ploop) - pevals)
    /\ pstate = "timeout" => (pallFalse /\ pevals = MaxAttempts(ploop))
    /\ pstate = "ready" => ~pallFalse
C4_Witness ==
  /\ ploop = "lvm_post" /\ pstate = "timeout"
  /\ pallFalse /\ pevals = LvmPostTries /\ psleeps = LvmPostTries

\* ------------------------------------------------------------------------
\* step_fstab on every mount table of up to MaxLines lines (FstabSpec)
\* ------------------------------------------------------------------------
FstabContents ==
  { Content(lines, nl) : lines \in SeqsUpTo(FstabLines, MaxLines), nl \in BOOLEAN }
FstabHosts ==
  { [w EXCEPT !.fstab = c] : w \in {ProvisionedHost, [ProvisionedHost EXCEPT !.mnt = TRUE]},
                             c \in FstabContents \cup {NoFile} }
FstabInit ==
  /\ pc = "loop" /\ i = IndexOf(installer_steps, "step_fstab")
  /\ run = 1 /\ exitCode = -1
  /\ invoked = SubSeq(installer_steps, 1, i - 1)
  /\ results = [k \in 1..(i - 1) |-> "ok"]
  /\ nonInteractive = TRUE
  /\ \E w \in FstabHosts : InitObs(w) /\ InitHost(w)
  /\ IdlePoll /\ IdleBoot /\ IdleCmd
FstabNext == Fstab
FstabSpec == FstabInit /\ [][FstabNext]_vars

\* C5: whenever the mount table holds a non-comment entry that claims the
\* managed mountpoint for another device, or mounts the managed device
\* elsewhere, step_fstab returns failure, leaves the file as it was and
\* makes no backup.
C5_ConflictDetected ==
  (JustRan("step_fstab") /\ HasConflict(start.fstab)) =>
    /\ Last(results) # "ok"
    /\ fstab = start.fstab
    /\ backups = start.backups

\* C6: whenever step_fstab returns success, the mount table holds at most
\* one non-comment entry for the managed mountpoint and at most one for the
\* managed device.
C6_MountTableInvariant ==
  (JustRan("step_fstab") /\ Last(results) = "ok") =>
    /\ Cardinality(RefMountpoint(fstab)) <= 1
    /\ Cardinality(RefDevice(fstab)) <= 1

\* ------------------------------------------------------------------------
\* The service manager acting on the generated units (BootSpec).
\* bmode is the transaction: "boot" (the units enabled for multi-user.target
\* and the mount unit made from the mount-table entry), "start_nbd" and
\* "start_lvm" (the two `systemctl start` of step_enable_storage_services).
\* bjobs gives each unit's job: "none" (no job), "waiting", running ("pre":
\* ExecStartPre has run; "post": ExecStart has run and ExecStartPost is
\* running; "start": mount is running), "done", "failed", "dep_failed" (a required unit
\* failed, or the device of a mount never appeared), "deleted" (removed to
\* break an ordering cycle).
\* ------------------------------------------------------------------------
MOUNT_UNIT == "mnt-data.mount"
SystemUnits ==
  {"local-fs.target", "remote-fs.target", "network-online.target",
   "systemd-modules-load.service", "systemd-udev-settle.service"}
BootUnits == SystemUnits \cup {NBD_UNIT, LVM_UNIT, MOUNT_UNIT}
Running == {"pre", "start", "post"}
Finished == {"none", "done", "failed", "dep_failed", "deleted"}

UnitFile(u) ==
  IF u = NBD_UNIT THEN nbdUnit ELSE IF u = LVM_UNIT THEN lvmUnit ELSE NoUnit

\* The mount unit made from the entry: _netdev orders it after the network
MountAfter(u) == IF u = MOUNT_UNIT THEN {"network-online.target"} ELSE {}

\* (mutant) the After= and Before= of the unit files order nothing
AfterOf_Unordered(u) == MountAfter(u)

\* u is ordered after v when u says After=v or v says Before=u
AfterOf(u) ==
  UnitFile(u).After \cup { v \in BootUnits : u \in UnitFile(v).Before }
    \cup MountAfter(u)
RequiresOf(u) == UnitFile(u).Requires

\* Ordering cycles among the jobs of the transaction
Waits(jobs, u) == { v \in AfterOf(u) \cap BootUnits : jobs[v] = "waiting" }
RECURSIVE ReachFrom(_, _, _)
ReachFrom(jobs, S, n) ==
  IF n = 0 THEN S
  ELSE ReachFrom(jobs, S \cup UNION { Waits(jobs, v) : v \in S }, n - 1)
OnCycle(jobs, u) ==
  /\ jobs[u] = "waiting"
  /\ u \in ReachFrom(jobs, Waits(jobs, u), Cardinality(BootUnits))
HasCycle(jobs) == \E u \in BootUnits : OnCycle(jobs, u)

\* Jobs pulled in by Wants= or WantedBy= only may be deleted; at boot these
\* are the two generated units and local-fs.target
MayDelete(u) == bmode = "boot" /\ u \in {NBD_UNIT, LVM_UNIT, "local-fs.target"}

\* Deleting a job deletes the jobs of the units that require it
DeleteJob(jobs, u) ==
  [v \in BootUnits |->
     IF v = u \/ (jobs[v] = "waiting" /\ u \in RequiresOf(v)) THEN "deleted"
     ELSE jobs[v]]

Ready(u) ==
  /\ bjobs[u] = "waiting"
  /\ ~HasCycle(bjobs)
  /\ \A v \in AfterOf(u) \cap BootUnits : bjobs[v] \in Finished
  /\ \A v \in RequiresOf(u) \cap AfterOf(u) : bjobs[v] \in {"none", "done"}
SetJob(u, st) == bjobs' = [bjobs EXCEPT ![u] = st]
BootFrame == UNCHANGED << mainVars, obsVars, pollVars, cmdVars, bmode >>
HostFrame ==
  UNCHANGED << userExists, groups, img, lvmMeta, fs, fstab, backups, nbdUnit,
               lvmUnit, enabled >>

\* The transaction has an ordering cycle: one job on it is deleted
BreakCycle ==
  /\ \E u \in BootUnits :
       /\ OnCycle(bjobs, u) /\ MayDelete(u)
       /\ bjobs' = DeleteJob(bjobs, u)
  /\ BootFrame /\ HostFrame
  /\ UNCHANGED << nbdConn, lvmActive, lvNode, mounted >>

\* A unit that required a failed unit fails without being started
DependencyFailed ==
  /\ \E u \in {LVM_UNIT} :
       /\ bjobs[u] = "waiting"
       /\ \E v \in RequiresOf(u) : bjobs[v] \in {"failed", "dep_failed"}
       /\ SetJob(u, "dep_failed")
  /\ BootFrame /\ HostFrame
  /\ UNCHANGED << nbdConn, lvmActive, lvNode, mounted >>

\* A target or a service of the system is reached
SystemUnitStart ==
  /\ \E u \in SystemUnits : Ready(u) /\ SetJob(u, "done")
  /\ BootFrame /\ HostFrame
  /\ UNCHANGED << nbdConn, lvmActive, lvNode, mounted >>

\* device-connect: ExecStartPre (modprobe; disconnect, failure ignored)
NbdExecStartPre ==
  /\ Ready(NBD_UNIT)
  /\ \E modprobe \in BOOLEAN : SetJob(NBD_UNIT, IF modprobe THEN "pre" ELSE "failed")
  /\ nbdConn' = FALSE
  /\ BootFrame /\ HostFrame
  /\ UNCHANGED << lvmActive, lvNode, mounted >>

\* device-connect: ExecStart (qemu-nbd --connect)
NbdExecStart ==
  /\ bjobs[NBD_UNIT] = "pre"
  /\ \E ok \in BOOLEAN :
       LET good == ok /\ img.exists IN
       /\ SetJob(NBD_UNIT, IF good THEN "post" ELSE "failed")
       /\ nbdConn' = good
  /\ BootFrame /\ HostFrame
  /\ UNCHANGED << lvmActive, lvNode, mounted >>

\* device-connect: ExecStartPost (the 60-attempt loop) ends; on timeout the
\* unit fails and its processes are killed
NbdExecStartPost ==
  /\ bjobs[NBD_UNIT] = "post"
  /\ \E ready \in BOOLEAN :
       /\ SetJob(NBD_UNIT, IF ready THEN "done" ELSE "failed")
       /\ nbdConn' = ready
  /\ BootFrame /\ HostFrame
  /\ UNCHANGED << lvmActive, lvNode, mounted >>

\* volume-activate: ExecStartPre (sleep, udevadm settle, the 30-attempt
\* loop on the device)
LvmExecStartPre ==
  /\ Ready(LVM_UNIT)
  /\ \E settle \in BOOLEAN, read \in BOOLEAN :
       SetJob(LVM_UNIT, IF settle /\ read /\ nbdConn THEN "pre" ELSE "failed")
  /\ BootFrame /\ HostFrame
  /\ UNCHANGED << nbdConn, lvmActive, lvNode, mounted >>

\* volume-activate: ExecStart (lvm vgchange -ay)
LvmExecStart ==
  /\ bjobs[LVM_UNIT] = "pre"
  /\ \E ok \in BOOLEAN :
       LET a == VgActivate(Host, ok) IN
       /\ SetJob(LVM_UNIT, IF a.ok THEN "post" ELSE "failed")
       /\ lvNode' = a.w.node
  /\ BootFrame /\ HostFrame
  /\ UNCHANGED << nbdConn, lvmActive, mounted >>

\* volume-activate: ExecStartPost (the 30-attempt wait for the node) ends
LvmExecStartPost ==
  /\ bjobs[LVM_UNIT] = "post"
  /\ SetJob(LVM_UNIT, IF lvNode THEN "done" ELSE "failed")
  /\ lvmActive' = lvNode
  /\ BootFrame /\ HostFrame
  /\ UNCHANGED << nbdConn, lvNode, mounted >>

\* The volume manager's own activation on the appearance of a physical
\* volume: the node may appear once the device is connected
UdevAutoactivate ==
  /\ bmode # "none"
  /\ nbdConn /\ lvmMeta = "lv" /\ ~lvNode
  /\ lvNode' = TRUE
  /\ BootFrame /\ HostFrame
  /\ UNCHANGED << nbdConn, lvmActive, mounted, bjobs >>

\* The mount unit waits for its device; then mount is attempted
MountAttempt ==
  /\ Ready(MOUNT_UNIT) /\ lvNode
  /\ SetJob(MOUNT_UNIT, "start")
  /\ BootFrame /\ HostFrame
  /\ UNCHANGED << nbdConn, lvmActive, lvNode, mounted >>
MountResult ==
  /\ bjobs[MOUNT_UNIT] = "start"
  /\ \E ok \in BOOLEAN :
       LET m == Mount(Host, ok) IN
       /\ SetJob(MOUNT_UNIT, IF m.ok THEN "done" ELSE "failed")
       /\ mounted' = m.w.mnt
  /\ BootFrame /\ HostFrame
  /\ UNCHANGED << nbdConn, lvmActive, lvNode >>
\* nofail: the device did not appear in time, the boot goes on
MountDeviceTimeout ==
  /\ Ready(MOUNT_UNIT) /\ ~lvNode
  /\ SetJob(MOUNT_UNIT, "dep_failed")
  /\ BootFrame /\ HostFrame
  /\ UNCHANGED << nbdConn, lvmActive, lvNode, mounted >>

\* The jobs of a transaction
BootJobs(mode, w) ==
  [u \in BootUnits |->
     CASE mode = "boot" ->
            IF u \in SystemUnits THEN "waiting"
            ELSE IF u = MOUNT_UNIT
              THEN (IF w.fstab.file /\ HasExact(w.fstab) THEN "waiting" ELSE "none")
            ELSE IF u \in w.enabled \/ (u = NBD_UNIT /\ LVM_UNIT \in w.enabled)
              THEN "waiting" ELSE "none"
       [] mode = "start_nbd" ->
            IF u = NBD_UNIT THEN (IF w.conn THEN "done" ELSE "waiting") ELSE "none"
       [] mode = "start_lvm" ->
            IF u = LVM_UNIT THEN (IF w.lvmAct THEN "done" ELSE "waiting")
            ELSE IF u = NBD_UNIT THEN (IF w.conn THEN "done" ELSE "waiting")
            ELSE "none"]

\* The hosts a run of the installer leaves, both units enabled; at boot
\* nothing is connected
BootHosts(mode) ==
  { [ProvisionedHost EXCEPT !.meta = m, !.fs = (m = "lv"), !.fstab = f,
                            !.enabled = e, !.conn = c, !.lvmAct = FALSE,
                            !.node = FALSE, !.mnt = FALSE] :
      m \in {"none", "lv"}, f \in {PlainFstab, ManagedFstab},
      e \in {{NBD_UNIT, LVM_UNIT}},
      c \in IF mode = "boot" THEN {FALSE} ELSE BOOLEAN }

BootInit ==
  /\ pc = "idle" /\ i = 1 /\ run = 1 /\ exitCode = -1
  /\ invoked = << >> /\ results = << >> /\ nonInteractive = TRUE
  /\ IdlePoll /\ IdleCmd
  /\ bmode \in {"boot", "start_nbd", "start_lvm"}
  /\ \E w \in BootHosts(bmode) :
       InitObs(w) /\ InitHost(w) /\ bjobs = BootJobs(bmode, w)
BootNext ==
  \/ BreakCycle \/ DependencyFailed \/ SystemUnitStart
  \/ NbdExecStartPre \/ NbdExecStart \/ NbdExecStartPost
  \/ LvmExecStartPre \/ LvmExecStart \/ LvmExecStartPost
  \/ UdevAutoactivate
  \/ MountAttempt \/ MountResult \/ MountDeviceTimeout
BootSpec == BootInit /\ [][BootNext]_vars

\* C7: the volume-activate unit declares Requires= and After= on the
\* device-connect unit, and in every transaction its job runs (ExecStartPre,
\* vgchange -ay, ExecStartPost) only when the device-connect job has ended
\* with success, its post-start check passed; it never runs when
\* device-connect failed.
LvmJobRan == bjobs[LVM_UNIT] \in Running \cup {"failed"}
C7_UnitOrdering ==
  bmode # "none" =>
    /\ NBD_UNIT \in lvmUnit.Requires /\ NBD_UNIT \in lvmUnit.After
    /\ LvmJobRan => bjobs[NBD_UNIT] = "done"
    /\ bjobs[NBD_UNIT] \in {"failed", "deleted"} =>
         bjobs[LVM_UNIT] \in {"none", "waiting", "dep_failed", "deleted"}
C7_Witness ==
  /\ bmode = "boot"
  /\ bjobs[NBD_UNIT] = "done" /\ bjobs[LVM_UNIT] = "post" /\ lvNode
  /\ bjobs["local-fs.target"] = "deleted"

\* C8: in every boot, mount of the managed mountpoint is attempted only
\* after the volume-activate unit has completed its start and its
\* post-start wait.
C8_MountAfterActivation ==
  (bmode = "boot" /\ bjobs[MOUNT_UNIT] \in {"start", "done", "failed"}) =>
    bjobs[LVM_UNIT] = "done"

\* ------------------------------------------------------------------------
\* Further properties of a provisioning run (Spec)
\* ------------------------------------------------------------------------
CreationBranches == {"created", "creation_failed"}
PresentBranches == {"satisfied", "satisfied_fallback"}
LvmSetupStep == pc = "loop" /\ installer_steps[i] = "step_lvm_setup"

\* C11: step_lvm_setup issues pvcreate only when, in the same call, the lvs
\* query came first and did not report the volume and the logical-volume
\* node did not exist; a call that classified the volume as present issues
\* no creation command.
C11_CreateOnlyWhenAbsent ==
  [][LvmSetupStep =>
       /\ "pvcreate" \in Range(cmds') =>
            /\ ~lvNode
            /\ cmds'[1] = "lvs --noheadings"
            /\ branch'["step_lvm_setup"] \in CreationBranches
       /\ branch'["step_lvm_setup"] \in PresentBranches =>
            Range(cmds') \cap Destructive = {}
       /\ lvNode => branch'["step_lvm_setup"] \in PresentBranches]_vars
C11_Witness ==
  /\ JustRan("step_lvm_setup")
  /\ branch["step_lvm_setup"] = "created"
  /\ cmds[1] = "lvs --noheadings" /\ Count(cmds, "pvcreate") = 1

\* C12: when the previous run failed in the one-time creation and left a
\* physical volume or a volume group without logical volume, the next
\* step_lvm_setup does not issue pvcreate again: it resumes or fails.
PartialCreation == prevLvm = "creation_failed" /\ lvmMeta \in {"pv", "vg"}
C12_PartialStateRecovered ==
  [][(LvmSetupStep /\ run >= 2 /\ PartialCreation) =>
       "pvcreate" \notin Range(cmds')]_vars

\* C13: when the required user or one of the required groups is missing as
\* step_prereqs runs, the run ends there with status 1, no user or group
\* is created and no command is issued.
PrereqsStep == pc = "loop" /\ installer_steps[i] = "step_prereqs"
RequiredGroups == {DEBIAN_GROUP, "disk"}
C13_PreconditionFailure ==
  [][(PrereqsStep /\ (~userExists \/ ~(RequiredGroups \subseteq groups))) =>
       /\ pc' = "exited" /\ exitCode' = 1
       /\ userExists' = userExists /\ groups' = groups
       /\ cmds' = << >>]_vars

(***************************************************************************)
(* run_command: one call, followed through its control flow (CmdSpec)      *)
(***************************************************************************)

\* A call site of run_command: the command, its check= and timeout=
\* arguments ("None" is the default: subprocess.run waits without limit)
\* and the user= argument ("none", a user pwd knows, or one it does not).
Site(line, cmd, check, timeout) ==
  [line |-> line, cmd |-> cmd, check |-> check, timeout |-> timeout,
   user |-> "none"]

\* Every run_command call of the storage steps.
StorageCalls ==
  { Site(394, "groupadd", TRUE, "None"),
    Site(514, "qemu-img create", TRUE, "None"),
    Site(536, "ls -lh", TRUE, "None"),
    Site(984, "ls -lh", TRUE, "None"),
    Site(1091, "lvs --noheadings", FALSE, "None"),
    Site(1098, "lvm vgchange -ay", FALSE, "None"),
    Site(1105, "lvm vgchange -ay", FALSE, "None"),
    Site(1114, "systemctl daemon-reload", TRUE, "None"),
    Site(1122, "systemctl start qemu-nbd-connect.service", TRUE, "90"),
    Site(1129, "journalctl", FALSE, "None"),
    Site(1131, "systemctl stop qemu-nbd-connect.service", FALSE, "None"),
    Site(1141, "lsblk", FALSE, "None"),
    Site(1142, "systemctl stop qemu-nbd-connect.service", FALSE, "None"),
    Site(1151, "pvcreate", TRUE, "60"),
    Site(1155, "vgcreate", TRUE, "30"),
    Site(1159, "lvcreate", TRUE, "30"),
    Site(1173, "lsblk", FALSE, "None"),
    Site(1177, "udevadm settle", FALSE, "None"),
    Site(1182, "mkfs.ext4", TRUE, "300"),
    Site(1190, "pvs", FALSE, "None"),
    Site(1191, "vgs", FALSE, "None"),
    Site(1192, "lvs", FALSE, "None"),
    Site(1199, "systemctl stop qemu-nbd-connect.service", FALSE, "None"),
    Site(1320, "lvm vgchange -ay", FALSE, "None"),
    Site(1325, "mount", FALSE, "None"),
    Site(1340, "mountpoint -q", FALSE, "None"),
    Site(1369, "systemctl daemon-reload", TRUE, "None"),
    Site(1376, "systemctl enable qemu-nbd-connect.service", TRUE, "None"),
    Site(1377, "systemctl enable lvm-activate-data-vg.service", TRUE, "None"),
    Site(1384, "systemctl start qemu-nbd-connect.service", FALSE, "None"),
    Site(1385, "systemctl start lvm-activate-data-vg.service", FALSE, "None"),
    Site(1393, "systemctl status", FALSE, "None") }

\* The signature of run_command: any check=, timeout= and user=.
AnyCalls ==
  [line : {106}, cmd : {"command"}, check : BOOLEAN,
   timeout : {"None", "30"}, user : {"none", "known", "unknown"}]

\* What the child process does: it exits with a code, never exits, cannot
\* be started because the executable is missing, or subprocess.run raises
\* some other exception (PermissionError, ...).
Behaviours == {"exit 0", "exit 1", "hangs", "no executable", "os error"}

ReturnCode(behav) == IF behav = "exit 0" THEN 0 ELSE 1

\* Lines 153-156: pwd.getpwnam raises KeyError for an unknown user.
RcAfterUser(call) ==
  IF call.user = "unknown"
  THEN [pc |-> "returned", ret |-> "None"]
  ELSE [pc |-> "subprocess"]

\* subprocess.run (lines 162-171) for each behaviour of the child.
RcAfterSubprocess(call, behav) ==
  CASE behav = "no executable" -> [pc |-> "except", exc |-> "FileNotFoundError"]
    [] behav = "os error" -> [pc |-> "except", exc |-> "Exception"]
    [] behav = "hangs" /\ call.timeout # "None" ->
         [pc |-> "except", exc |-> "TimeoutExpired"]
    [] behav = "hangs" /\ call.timeout = "None" -> [pc |-> "blocked"]
    [] OTHER -> [pc |-> "completed", returncode |-> ReturnCode(behav)]

RcAfterCompleted_Tolerant(check, returncode) ==
  IF returncode = 0 \/ ~check
  THEN [pc |-> "returned", ret |-> "result"]
  ELSE [pc |-> "except", exc |-> "CalledProcessError"]

\* Lines 182-196: the return code decides.
RcAfterCompleted(check, returncode) ==
  IF returncode = 0
  THEN [pc |-> "returned", ret |-> "result"]
  ELSE IF check
       THEN [pc |-> "except", exc |-> "CalledProcessError"]
       ELSE [pc |-> "returned", ret |-> "None"]

\* Lines 198-229: every except clause returns None.
RcAfterExcept(exc) == [pc |-> "returned", ret |-> "None"]

RcAt(p) == rc.pc = p
RcFrame ==
  UNCHANGED << mainVars, hostVars, obsVars, pollVars, bootVars, registered >>
RcGoto(new) ==
  rc' = [call |-> rc.call, behav |-> rc.behav] @@ new

RcResolveUser ==
  /\ RcAt("entry")
  /\ RcGoto(RcAfterUser(rc.call))
  /\ RcFrame

RcSubprocess ==
  /\ RcAt("subprocess")
  /\ RcGoto(RcAfterSubprocess(rc.call, rc.behav))
  /\ RcFrame

RcCheckResult ==
  /\ RcAt("completed")
  /\ RcGoto(RcAfterCompleted(rc.call.check, rc.returncode))
  /\ RcFrame

RcExcept ==
  /\ RcAt("except")
  /\ RcGoto(RcAfterExcept(rc.exc))
  /\ RcFrame

CmdInit ==
  /\ pc = "idle" /\ i = 1 /\ run = 1 /\ exitCode = -1
  /\ invoked = << >> /\ results = << >> /\ nonInteractive = TRUE
  /\ InitObs(ProvisionedHost) /\ InitHost(ProvisionedHost)
  /\ IdlePoll /\ IdleBoot
  /\ registered = installer_steps
  /\ \E call \in StorageCalls \cup AnyCalls, behav \in Behaviours :
       rc = [call |-> call, behav |-> behav, pc |-> "entry"]

CmdNext == RcResolveUser \/ RcSubprocess \/ RcCheckResult \/ RcExcept

CmdSpec == CmdInit /\ [][CmdNext]_vars

RcReturned == rc.pc = "returned"
RanAndExitedZero ==
  rc.call.user # "unknown" /\ rc.behav = "exit 0"

\* C14: no external command of the storage steps blocks the run forever: a
\* call of run_command made by a storage step whose child never exits does
\* not stay inside subprocess.run, it ends (with a timeout, as a failure).
C14_CommandsBounded ==
  (rc.pc # "none" /\ rc.call \in StorageCalls) => rc.pc # "blocked"

\* C16: run_command never ends in a raised exception; when it has returned,
\* the value is the completed-process result exactly when the command ran
\* and exited with code 0, and None in every other case (non-zero exit
\* with check True or False, timeout, missing executable, unknown user,
\* any other exception).
C16_ResultIffExitZero ==
  /\ rc.pc \in {"none", "entry", "subprocess", "completed", "except",
                "blocked", "returned"}
  /\ RcReturned =>
       /\ rc.ret \in {"result", "None"}
       /\ rc.ret = "result" <=> RanAndExitedZero

C16_Witness ==
  /\ RcReturned /\ rc.ret = "None"
  /\ rc.behav = "exit 1" /\ ~rc.call.check /\ rc.call.user = "known"

(***************************************************************************)
(* main on any registration of the steps (OrderSpec)                       *)
(***************************************************************************)

MaxRegistered == 4

\* The registered list of the source, and every list of up to MaxRegistered
\* distinct steps drawn from the three storage steps the order check names
\* and one other step.
OrderUniverse ==
  { "step_lvm_setup", "step_fstab", "step_enable_storage_services",
    "step_install_docker" }
Distinct(seq) == \A j, k \in 1..Len(seq) : j # k => seq[j] # seq[k]
Registrations ==
  { installer_steps } \cup
  { seq \in SeqsUpTo(OrderUniverse, MaxRegistered) : Distinct(seq) }

\* The loop of main over the registered list, whatever the steps do: the
\* step is executed and returns True ("ok"), False or raises.
RegisteredStep ==
  /\ pc = "loop"
  /\ \E res \in {"ok", "fail", "raise"} :
       /\ invoked' = Append(invoked, registered[i])
       /\ results' = Append(results, res)
       /\ IF res = "ok" /\ i < Len(registered)
            THEN pc' = "loop" /\ i' = i + 1 /\ exitCode' = -1
            ELSE /\ pc' = "exited" /\ i' = i
                 /\ exitCode' = IF res = "ok" THEN 0 ELSE 1
  /\ UNCHANGED << run, nonInteractive >>
  /\ UNCHANGED << hostVars, obsVars, pollVars, bootVars, cmdVars >>

OrderInit ==
  /\ InitMain
  /\ InitObs(ProvisionedHost) /\ InitHost(ProvisionedHost)
  /\ IdlePoll /\ IdleBoot
  /\ rc = NoCall
  /\ registered \in Registrations

OrderNext == MainStart \/ RegisteredStep

OrderSpec == OrderInit /\ [][OrderNext]_vars

Precedes(a, b) ==
  \A k \in 1..Len(invoked) :
    invoked[k] = b => \E j \in 1..(k - 1) : invoked[j] = a

StepOrderKept ==
  registered = installer_steps =>
    /\ Precedes("step_install_deps", "step_install_docker")
    /\ Precedes("step_install_deps", "step_configure_qemu_binfmt")
    /\ Precedes("step_lvm_setup", "step_fstab")
    /\ Precedes("step_fstab", "step_enable_storage_services")

EnableMisplaced(steps) ==
  LET lvm == IndexOf(steps, "step_lvm_setup")
      fst == IndexOf(steps, "step_fstab")
      ena == IndexOf(steps, "step_enable_storage_services")
  IN lvm = 0 \/ fst = 0 \/ ena = 0 \/ ena < lvm \/ ena < fst

UnitsWritten == {NBD_UNIT, LVM_UNIT} \subseteq written
Reconciled == branch["step_fstab"] \in {"satisfied", "appended"}

\* C17 as stated: creation, then the unit definitions, then the mount
\* table, then the permissions of the image.
C17_CreationFirst ==
  /\ Precedes("step_lvm_setup", "step_nbd_service")
  /\ Precedes("step_lvm_setup", "step_lvm_service")
  /\ Precedes("step_lvm_service", "step_fstab")
  /\ Precedes("step_fstab", "step_qcow_perms")

\* C17 (amended): the permissions of the backing image are normalised
\* first, then the two unit definitions are written, then the one-time
\* creation runs under transient activation, and last the mount table is
\* reconciled and the mount tested; the ownership of the mountpoint is set
\* inside the mount-table step, before the table is read.
C17_PhaseOrder ==
  /\ Precedes("step_qcow_perms", "step_nbd_service")
  /\ Precedes("step_nbd_service", "step_lvm_service")
  /\ Precedes("step_lvm_service", "step_lvm_setup")
  /\ Precedes("step_lvm_setup", "step_fstab")
  /\ written \cap {NBD_UNIT, LVM_UNIT} # {} =>
       /\ branch["step_qcow_perms"] \in {"changed", "satisfied"}
       /\ img = GoodImage
       /\ NBD_UNIT \in written
  /\ branch["step_lvm_setup"] # "none" => UnitsWritten /\ img = GoodImage
  /\ branch["step_fstab"] # "none" =>
       branch["step_lvm_setup"] \in PresentBranches \cup {"created"}
  /\ branch["step_fstab"] = "mountpoint_failed" =>
       fstab = start.fstab /\ backups = start.backups

C17_Witness ==
  /\ JustRan("step_fstab") /\ Reconciled
  /\ branch["step_lvm_setup"] = "created"
  /\ branch["step_qcow_perms"] = "satisfied"
  /\ UnitsWritten /\ img = GoodImage

CreationOrder == << "pvcreate", "vgcreate", "lvcreate", "mkfs.ext4" >>
CreationIssued(log) ==
  LET IsCreation(c) == c \in Range(CreationOrder) IN SelectSeq(log, IsCreation)
NodeObservedBeforeMkfs(log) ==
  \A k \in 1..Len(log) :
    log[k] = "mkfs.ext4" =>
      /\ k > 2 /\ log[k - 1] = "udevadm settle" /\ log[k - 2] = "lvcreate"
      /\ "lsblk" \notin Range(log)

\* C18: step_lvm_setup issues the creation commands in the order pvcreate,
\* vgcreate, lvcreate, mkfs.ext4, each at most once and each only after
\* every earlier one succeeded; mkfs.ext4 only after the wait saw the
\* logical-volume node in this call; and nothing of the sequence after the
\* first failure.
C18_CreationSequence ==
  [][LvmSetupStep =>
       LET cr == CreationIssued(cmds') IN
       /\ Len(cr) <= Len(CreationOrder)
       /\ cr = SubSeq(CreationOrder, 1, Len(cr))
       /\ Len(cr) >= 2 => lvmMeta' \in {"pv", "vg", "lv"}
       /\ Len(cr) >= 3 => lvmMeta' \in {"vg", "lv"}
       /\ Len(cr) = 4 => lvmMeta' = "lv"
       /\ NodeObservedBeforeMkfs(cmds')
       /\ (Len(cr) = 4 /\ fs') <=> branch'["step_lvm_setup"] = "created"
       /\ (Len(cr) \in 1..3 \/ (Len(cr) = 4 /\ ~fs')) <=>
            branch'["step_lvm_setup"] = "creation_failed"]_vars

C18_Witness ==
  /\ JustRan("step_lvm_setup")
  /\ branch["step_lvm_setup"] = "creation_failed"
  /\ CreationIssued(cmds) = << "pvcreate", "vgcreate", "lvcreate" >>
  /\ "lsblk" \in Range(cmds) /\ lvmMeta = "lv" /\ ~fs

LvmSetupSucceeded ==
  branch["step_lvm_setup"] \in PresentBranches \cup {"created"}

\* C19: in every run, once step_lvm_setup has returned success the logical
\* volume exists and carries a filesystem; a volume that was created but
\* never formatted is not reported as set up.
C19_SuccessMeansFormatted ==
  LvmSetupSucceeded => (lvmMeta = "lv" /\ fs)

(***************************************************************************)
(* The backup of the mount table (FstabSpec)                               *)
(***************************************************************************)

FstabStep == pc = "loop" /\ installer_steps[i] = "step_fstab"

\* C20: step_fstab changes the mount table only in a call that first made a
\* backup copy holding the content the table had before the call; a call
\* whose backup fails leaves the table and the backups as they were and
\* returns failure.
C20_BackupBeforeWrite ==
  [][FstabStep =>
       /\ fstab' # fstab =>
            /\ backups' = Append(backups, fstab)
            /\ branch'["step_fstab"] = "appended"
       /\ backups' # backups => backups' = Append(backups, fstab)
       /\ branch'["step_fstab"] = "backup_failed" =>
            /\ fstab' = fstab /\ backups' = backups
            /\ Last(results') = "fail"]_vars

C20_Witness ==
  /\ JustRan("step_fstab") /\ branch["step_fstab"] = "appended"
  /\ backups = << start.fstab >>
  /\ fstab = AppendEntry(start.fstab) /\ fstab # start.fstab

AddedLines == << << >>, fstab_comment_line, fstab_entry_line >>

MountTestLogs ==
  { << "vgchange -ay" >>, << "vgchange -ay", "mount" >>,
    << "vgchange -ay", "mount", "mountpoint -q" >> }

\* C22: a call of step_fstab that found or appended the managed entry
\* reaches the mount test and returns success, and the run goes on to the
\* next step, whether the volume group could be activated or not and
\* whether the mount succeeded, failed, was skipped for a missing node or
\* found the volume already mounted; the step fails only before the test.
C22_MountTestNeverFatal ==
  [][FstabStep =>
       /\ branch'["step_fstab"] \in {"satisfied", "appended"} =>
            /\ cmds' \in MountTestLogs
            /\ Last(results') = "ok"
            /\ pc' = "loop" /\ i' = i + 1
       /\ cmds' # << >> =>
            (branch'["step_fstab"] \in {"satisfied", "appended"}
               /\ Last(results') = "ok")
       /\ Last(results') = "ok" => HasExact(fstab')]_vars

C22_Witness ==
  /\ JustRan("step_fstab") /\ branch["step_fstab"] = "appended"
  /\ cmds = << "vgchange -ay", "mount", "mountpoint -q" >>
  /\ ~mounted /\ Last(results) = "ok" /\ pc = "loop"

(***************************************************************************)
(* step_enable_storage_services (Spec)                                     *)
(***************************************************************************)

EnableStep == pc = "loop" /\ installer_steps[i] = "step_enable_storage_services"
ReloadCmd == "systemctl daemon-reload"
EnableNbdCmd == "systemctl enable qemu-nbd-connect.service"
EnableLvmCmd == "systemctl enable lvm-activate-data-vg.service"
EnableCmds == << ReloadCmd, EnableNbdCmd, EnableLvmCmd >>

\* C23 as stated: both enable calls are attempted in every call of the step.
C23_EnablesAlwaysAttempted ==
  [][EnableStep => {EnableNbdCmd, EnableLvmCmd} \subseteq Range(cmds')]_vars

\* C23 (amended): a call whose daemon reload fails returns failure at once;
\* every other call attempts both enable calls, whatever the first one
\* returned, and returns success exactly when both succeeded; the two units
\* are started, device-connect first, exactly in the calls where both were
\* enabled, and those calls return success whatever the starts did.
C23_EnableOutcome ==
  [][EnableStep =>
       LET br == branch'["step_enable_storage_services"]
           ok == Last(results') = "ok"
       IN /\ br = "reload_failed" <=> cmds' = << ReloadCmd >>
          /\ br = "reload_failed" => (~ok /\ enabled' = enabled)
          /\ br # "reload_failed" => SubSeq(cmds', 1, 3) = EnableCmds
          /\ br = "enable_failed" <=> cmds' = Append(EnableCmds, "systemctl status")
          /\ br = "enable_failed" =>
               /\ ~ok
               /\ Cardinality(enabled' \ enabled) <= 1
          /\ ok <=> cmds' = EnableCmds \o << StartNbdCmd, StartLvmCmd >>
          /\ ok <=> br \in {"enabled", "satisfied"}
          /\ ok => {NBD_UNIT, LVM_UNIT} \subseteq enabled'
          /\ StartNbdCmd \in Range(cmds') \/ StartLvmCmd \in Range(cmds') => ok]_vars

C23_Witness ==
  /\ JustRan("step_enable_storage_services")
  /\ branch["step_enable_storage_services"] = "enable_failed"
  /\ cmds = Append(EnableCmds, "systemctl status")
  /\ enabled = {LVM_UNIT}

(***************************************************************************)
(* The unit loops against the reference poller (PollSpec)                  *)
(***************************************************************************)

FailedEvals == IF pstate = "ready" THEN pevals - 1 ELSE pevals
UnitLoops == {"nbd_post", "lvm_pre", "lvm_post"}

\* C24: each readiness loop of the generated units behaves as
\* await(predicate, maxAttempts, interval): the evaluation that finds the
\* predicate true ends the loop without a sleep, and every failed
\* evaluation costs exactly one attempt and exactly one sleep of the
\* interval.
C24_PollerEquivalence ==
  (pstate # "none" /\ ploop \in UnitLoops) =>
    /\ psleeps = FailedEvals
    /\ ptries = MaxAttempts(ploop) - FailedEvals

(***************************************************************************)
(* step_qcow_perms on every image (PermSpec)                               *)
(***************************************************************************)

PermModes == {"0660", "0644", "0600", "1660"}
PermImages ==
  { Image(m, o, g) : m \in PermModes, o \in {"root", DEBIAN_USER},
                     g \in {"disk", "root", DEBIAN_GROUP} }
PermHosts ==
  { [ProvisionedHost EXCEPT !.img = im, !.groups = gs] :
      im \in PermImages, gs \in {{DEBIAN_GROUP, "disk"}, {DEBIAN_GROUP}} }

PermIdx == IndexOf(installer_steps, "step_qcow_perms")

PermInit ==
  /\ pc = "loop" /\ i = PermIdx
  /\ run = 1 /\ exitCode = -1
  /\ invoked = SubSeq(installer_steps, 1, i - 1)
  /\ results = [k \in 1..(i - 1) |-> "ok"]
  /\ nonInteractive = TRUE
  /\ \E w \in PermHosts : InitObs(w) /\ InitHost(w)
  /\ IdlePoll /\ IdleBoot /\ IdleCmd

\* The script is run again and reaches step_qcow_perms: the steps before it
\* find the image in place and leave its mode and ownership alone.
PermRerun ==
  /\ pc = "loop" /\ i = PermIdx + 1 /\ run < MaxRuns
  /\ run' = run + 1
  /\ pc' = "loop" /\ i' = PermIdx /\ exitCode' = -1
  /\ invoked' = SubSeq(installer_steps, 1, PermIdx - 1)
  /\ results' = [k \in 1..(PermIdx - 1) |-> "ok"]
  /\ cmds' = << >> /\ destr' = {} /\ written' = {} /\ branch' = NoBranch
  /\ envOk' = TRUE
  /\ start' = Snapshot(Host)
  /\ prevExit' = 1 /\ prevLvm' = "none"
  /\ UNCHANGED nonInteractive
  /\ UNCHANGED hostVars
  /\ UNCHANGED << pollVars, bootVars, cmdVars >>

PermNext == QcowPerms \/ PermRerun
PermSpec == PermInit /\ [][PermNext]_vars

PermsStep == pc = "loop" /\ installer_steps[i] = "step_qcow_perms"
ChangeCalls(log) == Range(log) \cap {"chmod", "chown"}

\* C25: for every mode, owner and group of the image, a call of
\* step_qcow_perms that returns success leaves the image with mode 0660,
\* owner root and group disk, having issued chmod exactly when the mode
\* differed and chown exactly when owner or group differed; the call of the
\* next run then issues neither.
C25_PermsIdempotent ==
  [][(PermsStep /\ Last(results') = "ok") =>
       /\ img' = GoodImage
       /\ "chmod" \in Range(cmds') <=> img.mode # "0660"
       /\ "chown" \in Range(cmds') <=> (img.owner # "root" \/ img.group # "disk")
       /\ run >= 2 => ChangeCalls(cmds') = {}]_vars

FallbackTaken == branch'["step_lvm_setup"] = "satisfied_fallback"

\* C26: a call of step_lvm_setup whose lvs query did not confirm the
\* logical volume while its device node is a block device treats the volume
\* as present: it returns success having issued only the query and
\* 'vgchange -ay', without starting the device-connect unit and without
\* pvcreate, vgcreate, lvcreate or mkfs.ext4; the query is always the first
\* command, and the node decides only in calls where the query did not
\* confirm (a disconnected device cannot be confirmed, a missing node never
\* leads to this branch).
C26_FallbackPresent ==
  [][LvmSetupStep =>
       /\ cmds'[1] = "lvs --noheadings"
       /\ FallbackTaken =>
            /\ lvNode
            /\ Last(results') = "ok"
            /\ cmds' = << "lvs --noheadings", "vgchange -ay" >>
            /\ StartNbdCmd \notin Range(cmds')
            /\ Range(cmds') \cap Destructive = {}
            /\ lvmMeta' = lvmMeta /\ fs' = fs /\ nbdConn' = nbdConn
       /\ (lvNode /\ ~nbdConn) => FallbackTaken
       /\ ~lvNode => ~FallbackTaken]_vars

C26_Witness ==
  /\ JustRan("step_lvm_setup")
  /\ branch["step_lvm_setup"] = "satisfied_fallback"
  /\ Last(results) = "ok" /\ ~nbdConn /\ lvNode
  /\ cmds = << "lvs --noheadings", "vgchange -ay" >>

(***************************************************************************)
(* step_fstab of the Ult-int.py revision (UltIntSpec)                      *)
(***************************************************************************)

UltInt_fstab_comment_line ==
  << "#", "Entry added by AVF installer for LVM data volume (data_vg/data_lv)" >>

\* if line.strip().startswith('#'): continue
UltInt_IsComment(line) == line # << >> /\ line[1] \in HashTokens

\* The scan: an exact match sets entry_exists and breaks; the managed
\* mountpoint under another device only prints a warning and the scan goes on.
RECURSIVE UltInt_EntryExists(_, _)
UltInt_EntryExists(lines, k) ==
  IF k > Len(lines) THEN FALSE
  ELSE LET parts == lines[k] IN
       IF UltInt_IsComment(parts) THEN UltInt_EntryExists(lines, k + 1)
       ELSE IF Len(parts) >= 2 /\ parts[1] = LV_DEVICE_PATH
                               /\ parts[2] = LVM_MOUNT_POINT
         THEN TRUE
       ELSE UltInt_EntryExists(lines, k + 1)

\* new_content = content (+ "\n") + comment + "\n" + entry + "\n"
UltInt_AppendEntry(content) ==
  [file |-> TRUE,
   lines |-> content.lines \o << UltInt_fstab_comment_line, fstab_entry_line >>,
   nl |-> TRUE]

UltIntOutcomes == [chown : BOOLEAN, write : BOOLEAN, act : BOOLEAN, mount : BOOLEAN]

\* mkdir and chown of the mountpoint; read, scan and append; vgchange -ay and
\* mount, whose failure fails the step
UltInt_step_fstab(w, o) ==
  IF ~w.user \/ DEBIAN_GROUP \notin w.groups \/ ~o.chown
    THEN Ret(w, "fail", << >>, {}, "mountpoint_failed")
  ELSE IF ~w.fstab.file THEN Ret(w, "fail", << >>, {}, "no_fstab")
  ELSE
    LET entry_exists == UltInt_EntryExists(w.fstab.lines, 1)
        wNew == IF entry_exists THEN w
                ELSE [w EXCEPT !.fstab = UltInt_AppendEntry(w.fstab)]
        a == VgActivate(wNew, o.act)
        m == Mount(a.w, o.mount)
        log == IF a.ok THEN << "vgchange -ay", "mount" >>
               ELSE << "vgchange -ay", "lvs", "mount" >>
        files == IF entry_exists THEN {} ELSE {FSTAB_FILE}
        br == IF entry_exists THEN "satisfied" ELSE "appended"
    IN IF ~entry_exists /\ ~o.write THEN Ret(w, "fail", << >>, {}, "write_failed")
       ELSE IF ~m.ok
         THEN Ret(m.w, "fail", log \o << "mountpoint -q", "lsblk", "tail", "dmesg" >>,
                  files, br)
       ELSE Ret(m.w, "ok", log, files, br)

UltIntFstab ==
  /\ At("step_fstab")
  /\ \E o \in UltIntOutcomes :
       Apply("step_fstab", UltInt_step_fstab(Host, o), AllTrue(o))

UltIntSpec == FstabInit /\ [][UltIntFstab]_vars

ClaimedByOther(content) ==
  \E k \in RefMountpoint(content) : content.lines[k][1] # LV_DEVICE_PATH

\* C27: in the Ult-int.py revision, a call of step_fstab on a mount table in
\* which an entry claims the managed mountpoint for another device returns
\* failure and leaves the table as it was, so the table never holds two
\* entries for the managed mountpoint.
C27_UltIntConflictFatal ==
  [][(FstabStep /\ fstab.file /\ ClaimedByOther(fstab)) =>
       /\ Last(results') = "fail"
       /\ fstab' = fstab
       /\ Cardinality(RefMountpoint(fstab')) <= Cardinality(RefMountpoint(fstab))]_vars

\* C28: the After= and Before= declarations of qemu-nbd-connect.service and
\* lvm-activate-data-vg.service together with local-fs.target contain no
\* cycle: in no transaction do the jobs of these units wait on each other in
\* a circle, and no job is dropped to order them.
C28_OrderingSatisfiable ==
  bmode # "none" =>
    \A u \in {NBD_UNIT, LVM_UNIT, "local-fs.target"} :
      ~OnCycle(bjobs, u) /\ bjobs[u] # "deleted"

\* C29: in every state of a provisioning run the volume group is active (its
\* logical volume mapped at /dev/data_vg/data_lv) only while the virtual
\* block device is connected; the teardown in step_lvm_setup deactivates the
\* volume group before the device is disconnected.
\* Stated of the steps of the run: no step leaves the volume mapped with the
\* device disconnected unless it found the host so.
C29_ActiveOnlyWhileConnected ==
  [][(lvNode => nbdConn) => (lvNode' => nbdConn')]_vars

\* C30: every run that completes successfully (exit status 0) ends with the
\* logical volume mounted at the managed mountpoint.
C30_SuccessMeansMounted == (Done /\ exitCode = 0) => mounted

====
